---- MODULE Spec2Model ----
(***************************************************************************)
(* Document-Analysis: the ingestion pipeline (POST /api/ingest) and the    *)
(* retrieval-augmented chat turn (POST /api/chat) over the relational      *)
(* store (Document, DocumentEmbedding, ChatMessage).                       *)
(*                                                                         *)
(* Every request is a sequential unit of work; its awaits are the only     *)
(* suspension points, so one action is the code between two awaits,        *)
(* together with the outcome of the awaited call.  Texts are sequences of  *)
(* character codes.  A nullable value is a sequence of length 0 or 1.      *)
(***************************************************************************)
EXTENDS Integers, Sequences, FiniteSets, TLC

\* ------------------------------------------------------------------ bounds
MaxIngests == 2
MaxTurns == 2
\* how many rows may get the createdAt of the row written before them
MaxTies == 1

\* ------------------------------------------------------- program constants
MinEmbedLen == 20
SchemaInputBudget == 40000
RetrieveLimit == 3

\* ---------------------------------------------------------------- helpers
None == <<>>
Some(x) == <<x>>
IsSome(o) == Len(o) > 0
Get(o) == o[1]

Rep(c, n) == [k \in 1..n |-> c]
Take(s, n) == IF Len(s) > n THEN SubSeq(s, 1, n) ELSE s

RECURSIVE SeqSum(_)
SeqSum(s) == IF s = <<>> THEN 0 ELSE Head(s) + SeqSum(Tail(s))

\* ------------------------------------------------------------- sanitize.ts
\* /\u0000/g, then /[\u0001-\u0008\u000B\u000C\u000E-\u001F]/g, both replaced by ""
IsNul(c) == c = 0
IsStrippedControl(c) == (c >= 1 /\ c <= 8) \/ c = 11 \/ c = 12 \/ (c >= 14 /\ c <= 31)

\* the element of s that P finds first, taken out
RemoveFirst(s, P(_)) ==
    IF \E k \in DOMAIN s : P(s[k])
    THEN LET k == CHOOSE k \in DOMAIN s : P(s[k]) /\ \A j \in 1..(k - 1) : ~P(s[j])
         IN  SubSeq(s, 1, k - 1) \o SubSeq(s, k + 1, Len(s))
    ELSE s

\* the two patterns without their g flag: the first match only is replaced
sanitizeForPostgresText_first(input) ==
    RemoveFirst(RemoveFirst(input, IsNul), IsStrippedControl)

sanitizeForPostgresText(input) ==
    LET noNul == SelectSeq(input, LAMBDA c : ~IsNul(c))
    IN  SelectSeq(noNul, LAMBDA c : ~IsStrippedControl(c))

\* --------------------------------------------------------------- redact.ts
IsDigit(c) == c >= 48 /\ c <= 57
\* \w of a JavaScript regular expression without the u flag: [A-Za-z0-9_]
IsWordChar(c) == IsDigit(c) \/ (c >= 65 /\ c <= 90) \/ (c >= 97 /\ c <= 122) \/ c = 95
IsWordAt(text, p) == p >= 1 /\ p <= Len(text) /\ IsWordChar(text[p])
\* \b between positions p-1 and p
IsBoundary(text, p) == IsWordAt(text, p - 1) # IsWordAt(text, p)

Dash == 45
REDACTED_SSN == <<91, 82, 69, 68, 65, 67, 84, 69, 68, 95, 83, 83, 78, 93>>
REDACTED_CARD == <<91, 82, 69, 68, 65, 67, 84, 69, 68, 95, 67, 65, 82, 68, 93>>
SsnLen == 11
CardLen == 16

\* /\b\d{3}-\d{2}-\d{4}\b/ matches at position i
MatchSSN(text, i) ==
    /\ i + SsnLen - 1 <= Len(text)
    /\ IsBoundary(text, i)
    /\ \A k \in 0..(SsnLen - 1) :
          IF k = 3 \/ k = 6 THEN text[i + k] = Dash ELSE IsDigit(text[i + k])
    /\ IsBoundary(text, i + SsnLen)

\* /\b\d{16}\b/ matches at position i
MatchCard(text, i) ==
    /\ i + CardLen - 1 <= Len(text)
    /\ IsBoundary(text, i)
    /\ \A k \in 0..(CardLen - 1) : IsDigit(text[i + k])
    /\ IsBoundary(text, i + CardLen)

\* String.prototype.replace with a /g pattern: leftmost matches, left to right,
\* the scan resumes after each match
RECURSIVE ReplaceSSN(_, _)
ReplaceSSN(text, i) ==
    IF i > Len(text) THEN <<>>
    ELSE IF MatchSSN(text, i) THEN REDACTED_SSN \o ReplaceSSN(text, i + SsnLen)
    ELSE <<text[i]>> \o ReplaceSSN(text, i + 1)

RECURSIVE ReplaceCard(_, _)
ReplaceCard(text, i) ==
    IF i > Len(text) THEN <<>>
    ELSE IF MatchCard(text, i) THEN REDACTED_CARD \o ReplaceCard(text, i + CardLen)
    ELSE <<text[i]>> \o ReplaceCard(text, i + 1)

\* the first match of a pattern replaced by a token, the rest of the text kept
ReplaceFirst(text, Matches(_, _), len, token) ==
    IF \E i \in DOMAIN text : Matches(text, i)
    THEN LET i == CHOOSE i \in DOMAIN text :
                     Matches(text, i) /\ \A j \in 1..(i - 1) : ~Matches(text, j)
         IN  SubSeq(text, 1, i - 1) \o token \o SubSeq(text, i + len, Len(text))
    ELSE text

\* the two patterns without their g flag: the first match only is replaced
redactPII_first(text) ==
    ReplaceFirst(ReplaceFirst(text, MatchSSN, SsnLen, REDACTED_SSN),
                 MatchCard, CardLen, REDACTED_CARD)

\* a redaction that returns its input
redactPII_none(text) == text

redactPII(text) == ReplaceCard(ReplaceSSN(text, 1), 1)

\* ------------------------------------------------------ String.prototype.trim
\* white space and line terminators of ECMAScript that are below U+0100
IsWhiteSpace(c) == c \in {9, 10, 11, 12, 13, 32, 160}

RECURSIVE TrimStart(_)
TrimStart(s) == IF s # <<>> /\ IsWhiteSpace(Head(s)) THEN TrimStart(Tail(s)) ELSE s

RECURSIVE TrimEnd(_)
TrimEnd(s) ==
    IF s # <<>> /\ IsWhiteSpace(s[Len(s)]) THEN TrimEnd(SubSeq(s, 1, Len(s) - 1)) ELSE s

Trim(s) == TrimEnd(TrimStart(s))

\* -------------------------------------------------------------- JSON values
JNull == [t |-> "null"]
JStr(s) == [t |-> "str", v |-> s]
JNum(n) == [t |-> "num", v |-> n]
JFunction == [t |-> "function"]
JArr(a) == [t |-> "arr", v |-> a]
JObj(f) == [t |-> "obj", v |-> f]
EmptyObj == JObj(<<>>)

\* object keys, as texts
K_doc_type == <<100, 111, 99, 95, 116, 121, 112, 101>>
K_person == <<112, 101, 114, 115, 111, 110>>
K_name == <<110, 97, 109, 101>>
K_skills == <<115, 107, 105, 108, 108, 115>>
K_field == <<102, 105, 101, 108, 100>>
K_query == <<113, 117, 101, 114, 121>>
K_length == <<108, 101, 110, 103, 116, 104>>
K_constructor == <<99, 111, 110, 115, 116, 114, 117, 99, 116, 111, 114>>
Dot == 46
LineFeed == 10

\* --------------------------------------------------------- request inputs
\* "John Doe, SSN 123-45-6789."
TextSSN == <<74, 111, 104, 110, 32, 68, 111, 101, 44, 32, 83, 83, 78, 32,
             49, 50, 51, 45, 52, 53, 45, 54, 55, 56, 57, 46>>
\* 19 letters: one short of the embedding threshold
TextShort == Rep(97, MinEmbedLen - 1)
\* a blank, 19 letters, a line feed: 21 characters, 19 after trim
TextPadded == <<32>> \o Rep(97, MinEmbedLen - 1) \o <<10>>
\* a NUL and 20 letters
TextNul == <<0>> \o Rep(98, MinEmbedLen)

Files == {
    [name |-> "a.txt", type |-> "text/plain", content |-> TextSSN],
    [name |-> "c.txt", type |-> "text/plain", content |-> TextPadded],
    [name |-> "d.pdf", type |-> "application/pdf", content |-> TextNul],
    [name |-> "E.PDF", type |-> "application/octet-stream", content |-> TextShort],
    [name |-> "f.png", type |-> "image/png", content |-> TextSSN] }

\* file.type.startsWith("text/")
TypeIsText(type) == type \in {"text/plain", "text/csv", "text/html"}
\* file.name.toLowerCase().endsWith(".pdf")
NameIsPdf(name) == name \in {"d.pdf", "E.PDF"}

\* what a thrown value carries in .message (None: no message property)
Thrown == {Some("Request timed out."), None}

\* the other keys of the structure the prompt asks for
K_email == <<101, 109, 97, 105, 108>>
K_phone == <<112, 104, 111, 110, 101>>
K_links == <<108, 105, 110, 107, 115>>
K_summary == <<115, 117, 109, 109, 97, 114, 121>>
K_experience == <<101, 120, 112, 101, 114, 105, 101, 110, 99, 101>>
K_education == <<101, 100, 117, 99, 97, 116, 105, 111, 110>>
K_raw_highlights == <<114, 97, 119, 95, 104, 105, 103, 104, 108, 105, 103, 104, 116, 115>>

\* the extracted object of a complete answer of the model: the structure of
\* the prompt, null where unknown, arrays even if empty
FullExtracted ==
    JObj((K_doc_type :> JStr(<<114, 101, 115, 117, 109, 101>>))
      @@ (K_person :> JObj((K_name :> JStr(<<74, 111, 104, 110, 32, 68, 111, 101>>))
                        @@ (K_email :> JNull)
                        @@ (K_phone :> JNull)
                        @@ (K_links :> JArr(<<>>))))
      @@ (K_summary :> JNull)
      @@ (K_skills :> JArr(<<JStr(<<83, 81, 76>>)>>))
      @@ (K_experience :> JArr(<<>>))
      @@ (K_education :> JArr(<<>>))
      @@ (K_raw_highlights :> JArr(<<>>)))

K_schema == <<115, 99, 104, 101, 109, 97>>
K_extracted == <<101, 120, 116, 114, 97, 99, 116, 101, 100>>
K_confidence == <<99, 111, 110, 102, 105, 100, 101, 110, 99, 101>>

FullSchema == JObj(K_doc_type :> JStr(<<115, 116, 114, 105, 110, 103>>))
FullConfidence == JObj(K_doc_type :> JNum(1))

\* res.choices[0]?.message?.content of schema discovery (None: null or undefined)
DiscoveryContents == {None, Some(""), Some("not json"), Some("null"), Some("{}"),
                      Some("{schema,extracted,confidence}")}

\* JSON.parse on the texts the completion service sends: None when it throws
\* a SyntaxError
JSONParse(content) ==
    CASE content = "null" -> Some(JNull)
      [] content = "{}" -> Some(EmptyObj)
      [] content = "{\"field\":\"person.name\"}" ->
            Some(JObj(K_field :> JStr(K_person \o <<Dot>> \o K_name)))
      [] content = "{\"field\":\"skills.0\"}" ->
            Some(JObj(K_field :> JStr(K_skills \o <<Dot, 48>>)))
      [] content = "{\"query\":\"SSN\"}" -> Some(JObj(K_query :> JStr(<<83, 83, 78>>)))
      [] content = "{schema,extracted,confidence}" ->
            Some(JObj((K_schema :> FullSchema)
                   @@ (K_extracted :> FullExtracted)
                   @@ (K_confidence :> FullConfidence)))
      [] OTHER -> None

\* obj.key ?? dflt, for obj an object
PropOr(obj, key, dflt) ==
    IF key \in DOMAIN obj.v /\ obj.v[key] # JNull THEN obj.v[key] ELSE dflt

Vectors == {<<0, 0>>, <<3, 4>>}

\* ------------------------------------------------------------------- state
VARIABLES
    documents,      \* table Document, in insertion order
    embeddings,     \* table DocumentEmbedding, in insertion order
    chatMessages,   \* table ChatMessage, in insertion order
    now,            \* CURRENT_TIMESTAMP, in milliseconds
    ingest,         \* the POST /api/ingest requests
    docsRead,       \* the last response of GET /api/docs
    chat,           \* the POST /api/chat requests
    messagesRead,   \* the last response of GET /api/chat/messages
    sanitized,      \* an input of sanitizeForPostgresText and what it returned
    evaluated       \* a function of the routes applied on its own: its input and its result

vars == <<documents, embeddings, chatMessages, now, ingest, docsRead, chat, messagesRead,
          sanitized, evaluated>>

IngestIds == 1..MaxIngests
TurnIds == 1..MaxTurns

\* err?.message ?? "Unknown error"
CatchMessage(err) == IF IsSome(err) THEN Get(err) ELSE "Unknown error"

ErrorResponse(status, msg) == [status |-> status, error |-> Some(msg), documentId |-> None]
IngestOk(id) == [status |-> 200, error |-> None, documentId |-> Some(id)]

\* an entry of a request's log: a stage entered or a call made, with the text passed
Ev(name) == [ev |-> name, arg |-> <<>>]
Call(name, text) == [ev |-> name, arg |-> text]
Count(log, name) == Len(SelectSeq(log, LAMBDA x : x.ev = name))
\* what the log keeps of the earlier steps of a request: the names of its
\* stages and calls, and the answers of the completion service
Summary(log) == [k \in DOMAIN log |-> IF log[k].ev = "answer" THEN log[k] ELSE Ev(log[k].ev)]
\* the log after a step that adds evs: the arguments of the calls of the latest
\* step are kept until the next step
Logged(log, evs) == Summary(log) \o evs

\* the locals of one request (file, redacted, discovered, doc, vector), its
\* response, and what it did: whether its form had a file (request), the stages
\* and calls (log), the answer of the completion service (content), the rows
\* written (wrote)
IngestInit ==
    [pc |-> "new", file |-> None, redacted |-> <<>>, discovered |-> None,
     doc |-> None, vector |-> None, response |-> None,
     request |-> None, log |-> <<>>, content |-> None, wrote |-> <<>>]

\* the locals of one chat turn, its response, and what it did: the body it
\* parsed (request), the calls made and the answers received (log), the rows
\* written (wrote)
ChatInit ==
    [pc |-> "new", request |-> None, documentId |-> None, messages |-> None, document |-> None,
     savedUserMessage |-> None, queryEmbedding |-> None, systemMessage |-> None,
     assistantMessage |-> None, toolResults |-> <<>>, finalMessage |-> None,
     response |-> None, log |-> <<>>, wrote |-> <<>>]

\* no call of sanitizeForPostgresText outside the ingestion route
NoCall == [input |-> <<>>, output |-> None, again |-> None]

\* no function of the routes applied on its own
NoEvaluation == [fn |-> "none", input |-> <<>>, output |-> None, again |-> None]

Init ==
    /\ documents = <<>>
    /\ embeddings = <<>>
    /\ chatMessages = <<>>
    /\ now = 0
    /\ ingest = [i \in IngestIds |-> IngestInit]
    /\ docsRead = None
    /\ chat = [t \in TurnIds |-> ChatInit]
    /\ messagesRead = None
    /\ sanitized = NoCall
    /\ evaluated = NoEvaluation

\* rows whose createdAt is the createdAt of an earlier row
Ties ==
    Len(documents) + Len(chatMessages)
    - Cardinality({documents[k].createdAt : k \in DOMAIN documents}
                  \cup {chatMessages[k].createdAt : k \in DOMAIN chatMessages})

\* a timestamp default: the clock has advanced since the last write, or not
Timestamps == IF Ties < MaxTies THEN {now, now + 1} ELSE {now + 1}

\* rows by key
EmbeddingsOf(id) == SelectSeq(embeddings, LAMBDA e : e.documentId = id)
DocumentsWithId(id) == SelectSeq(documents, LAMBDA d : d.id = id)

\* the route returns: its locals go out of scope
IngestReturn(i, evs, rows, resp) ==
    ingest' = [ingest EXCEPT ![i] = [IngestInit EXCEPT
                  !.pc = "done",
                  !.request = ingest[i].request,
                  !.log = Summary(ingest[i].log \o evs),
                  !.content = ingest[i].content,
                  !.wrote = ingest[i].wrote \o rows,
                  !.response = Some(resp)]]

\* catch (err) of the ingest route; evs: the stage that threw
IngestFail(i, err, evs) ==
    IngestReturn(i, evs \o <<Ev("throw")>>, <<>>, ErrorResponse(500, CatchMessage(err)))

\* ------------------------------------------------------ POST /api/ingest
\* req.formData(), form.get("file"), the instanceof check
IngestReceive(i) ==
    /\ ingest[i].pc = "new"
    /\ \A j \in IngestIds : j < i => ingest[j].pc # "new"
    /\ \/ \E e \in Thrown : IngestFail(i, e, <<>>)
       \/ ingest' = [ingest EXCEPT ![i] = [IngestInit EXCEPT
                        !.pc = "done",
                        !.request = Some([hasFile |-> FALSE]),
                        !.response = Some(ErrorResponse(400, "Missing file"))]]
       \/ \E f \in Files :
             ingest' = [ingest EXCEPT ![i].pc = "extract", ![i].file = Some(f),
                                      ![i].request = Some([hasFile |-> TRUE])]
    /\ UNCHANGED <<documents, embeddings, chatMessages, now, docsRead, messagesRead, sanitized, evaluated, chat>>

\* extractTextFromFile: file.text(), or unpdf's extractText, or ""
\* an extraction that reads the text of every file, as an OCR fallback would
extractTextFromFile_ocr(file) == file.content

extractTextFromFile(file) ==
    IF TypeIsText(file.type) THEN file.content
    ELSE IF file.type = "application/pdf" \/ NameIsPdf(file.name) THEN file.content
    ELSE <<>>

\* extractTextFromFile may throw where it calls unpdf
ExtractMayThrow(file) ==
    ~TypeIsText(file.type) /\ (file.type = "application/pdf" \/ NameIsPdf(file.name))

\* steps 1 to 3: extractTextFromFile, sanitizeForPostgresText, redactPII
IngestExtract(i) ==
    /\ ingest[i].pc = "extract"
    /\ LET file == Get(ingest[i].file)
           rawText == extractTextFromFile(file)
           cleanText == sanitizeForPostgresText(rawText)
           redacted == redactPII(cleanText)
       IN  \/ /\ ExtractMayThrow(file)
              /\ \E e \in Thrown : IngestFail(i, e, <<Ev("extract")>>)
           \/ ingest' = [ingest EXCEPT ![i].pc = "discover",
                                       ![i].redacted = redacted,
                                       ![i].log = Logged(@, <<Ev("extract"), Ev("sanitize"),
                                                              Ev("redact")>>)]
    /\ UNCHANGED <<documents, embeddings, chatMessages, now, docsRead, messagesRead, sanitized, evaluated, chat>>

\* a discovery that falls back to empty objects instead of throwing
discoverSchemaAndExtract_lenient(content) ==
    LET parsed == IF IsSome(content) THEN JSONParse(Get(content)) ELSE None
        obj == IF IsSome(parsed) /\ Get(parsed) # JNull THEN Get(parsed) ELSE EmptyObj
    IN  [ok |-> TRUE,
         schema |-> PropOr(obj, K_schema, EmptyObj),
         extracted |-> PropOr(obj, K_extracted, EmptyObj),
         confidence |-> PropOr(obj, K_confidence, EmptyObj)]

\* discoverSchemaAndExtract on the content of the completion response:
\* the empty check, JSON.parse, the ?? {} defaults
discoverSchemaAndExtract(content) ==
    IF ~IsSome(content) \/ content = Some("")
    THEN [ok |-> FALSE, err |-> Some("LLM returned empty response")]
    ELSE LET parsed == JSONParse(Get(content))
         IN  IF ~IsSome(parsed)
             THEN [ok |-> FALSE, err |-> Some("Unexpected token in JSON")]
             ELSE IF Get(parsed) = JNull
             THEN [ok |-> FALSE, err |-> Some("Cannot read properties of null")]
             ELSE [ok |-> TRUE,
                   schema |-> PropOr(Get(parsed), K_schema, EmptyObj),
                   extracted |-> PropOr(Get(parsed), K_extracted, EmptyObj),
                   confidence |-> PropOr(Get(parsed), K_confidence, EmptyObj)]

\* text.length > 40_000 ? text.slice(0, 40_000) : text
DiscoveryInput(text) ==
    IF Len(text) > SchemaInputBudget THEN SubSeq(text, 1, SchemaInputBudget) ELSE text

\* step 4: the completion call of schema discovery, then its checks
IngestDiscover(i) ==
    /\ ingest[i].pc = "discover"
    /\ LET call == Call("discover", DiscoveryInput(ingest[i].redacted))
       IN  \/ \E e \in Thrown : IngestFail(i, e, <<call>>)
           \/ \E content \in DiscoveryContents :
                 LET d == discoverSchemaAndExtract(content)
                 IN  IF d.ok
                     THEN ingest' = [ingest EXCEPT ![i].pc = "persist",
                                                   ![i].log = Logged(@, <<call>>),
                                                   ![i].content = Some(content),
                                                   ![i].discovered = Some(d)]
                     ELSE ingest' = [ingest EXCEPT ![i] = [IngestInit EXCEPT
                             !.pc = "done",
                             !.request = ingest[i].request,
                             !.log = Summary(ingest[i].log \o <<call, Ev("throw")>>),
                             !.content = Some(content),
                             !.response = Some(ErrorResponse(500, CatchMessage(d.err)))]]
    /\ UNCHANGED <<documents, embeddings, chatMessages, now, docsRead, messagesRead, sanitized, evaluated, chat>>

\* a row created before the pipeline has finished, to be updated later
NewDocument_pending(id, file, redacted, d, ts) ==
    [id |-> id,
     filename |-> file.name,
     text |-> redacted,
     schema |-> d.schema,
     extracted |-> d.extracted,
     confidence |-> d.confidence,
     status |-> "EMBEDDING",
     createdAt |-> ts]

\* the data of db.document.create; the store adds id and createdAt
NewDocument(id, file, redacted, d, ts) ==
    [id |-> id,
     filename |-> file.name,
     text |-> redacted,
     schema |-> d.schema,
     extracted |-> d.extracted,
     confidence |-> d.confidence,
     status |-> "REVIEW_REQUIRED",
     createdAt |-> ts]

\* the test without trim()
WantsEmbedding_untrimmed(redacted) == Len(redacted) >= MinEmbedLen

\* the test left out
WantsEmbedding_always(redacted) == TRUE

\* redacted.trim().length >= 20
WantsEmbedding(redacted) == Len(Trim(redacted)) >= MinEmbedLen

\* step 5: db.document.create, then the test that guards embedAndStore
IngestPersist(i) ==
    /\ ingest[i].pc = "persist"
    /\ \/ /\ \E e \in Thrown : IngestFail(i, e, <<Ev("persist")>>)
          /\ UNCHANGED <<documents, now>>
       \/ \E ts \in Timestamps :
             LET doc == NewDocument(Len(documents) + 1, Get(ingest[i].file),
                                    ingest[i].redacted, Get(ingest[i].discovered), ts)
                 row == <<"Document", doc.id>>
             IN  /\ documents' = Append(documents, doc)
                 /\ now' = ts
                 /\ IF WantsEmbedding(ingest[i].redacted)
                    THEN ingest' = [ingest EXCEPT ![i].pc = "embed",
                                                  ![i].log = Logged(@, <<Ev("persist")>>),
                                                  ![i].wrote = @ \o <<row>>,
                                                  ![i].doc = Some(doc)]
                    ELSE IngestReturn(i, <<Ev("persist")>>, <<row>>, IngestOk(doc.id))
    /\ UNCHANGED <<embeddings, chatMessages, docsRead, messagesRead, sanitized, evaluated, chat>>

\* step 6, embedAndStore: openai.embeddings.create on the text
IngestEmbed(i) ==
    /\ ingest[i].pc = "embed"
    /\ LET call == Call("embed", ingest[i].redacted)
       IN  \/ \E e \in Thrown : IngestFail(i, e, <<call>>)
           \/ \E v \in Vectors :
                 ingest' = [ingest EXCEPT ![i].pc = "store",
                                          ![i].log = Logged(@, <<call>>),
                                          ![i].vector = Some(v)]
    /\ UNCHANGED <<documents, embeddings, chatMessages, now, docsRead, messagesRead, sanitized, evaluated, chat>>

\* an insert of one row per half of the text
IngestStore_chunks(i) ==
    /\ ingest[i].pc = "store"
    /\ LET e == [id |-> Len(embeddings) + 1,
                 documentId |-> Get(ingest[i].doc).id,
                 vector |-> Get(ingest[i].vector)]
           f == [e EXCEPT !.id = e.id + 1]
       IN  /\ embeddings' = embeddings \o <<e, f>>
           /\ IngestReturn(i, <<Ev("store")>>,
                           <<<<"DocumentEmbedding", e.id>>, <<"DocumentEmbedding", f.id>>>>,
                           IngestOk(Get(ingest[i].doc).id))
    /\ UNCHANGED <<documents, chatMessages, now, docsRead, messagesRead, sanitized, evaluated, chat>>

\* a table that keeps the latest embedding only
IngestStore_replace(i) ==
    /\ ingest[i].pc = "store"
    /\ LET e == [id |-> Len(embeddings) + 1,
                 documentId |-> Get(ingest[i].doc).id,
                 vector |-> Get(ingest[i].vector)]
       IN  /\ embeddings' = <<e>>
           /\ IngestReturn(i, <<Ev("store")>>, <<<<"DocumentEmbedding", e.id>>>>,
                           IngestOk(Get(ingest[i].doc).id))
    /\ UNCHANGED <<documents, chatMessages, now, docsRead, messagesRead, sanitized, evaluated, chat>>

\* step 6, embedAndStore: INSERT INTO "DocumentEmbedding"; then the response
IngestStore(i) ==
    /\ ingest[i].pc = "store"
    /\ \/ /\ \E e \in Thrown : IngestFail(i, e, <<Ev("store")>>)
          /\ UNCHANGED embeddings
       \/ LET e == [id |-> Len(embeddings) + 1,
                    documentId |-> Get(ingest[i].doc).id,
                    vector |-> Get(ingest[i].vector)]
          IN  /\ embeddings' = Append(embeddings, e)
              /\ IngestReturn(i, <<Ev("store")>>, <<<<"DocumentEmbedding", e.id>>>>,
                              IngestOk(Get(ingest[i].doc).id))
    /\ UNCHANGED <<documents, chatMessages, now, docsRead, messagesRead, sanitized, evaluated, chat>>

\* --------------------------------------------------------- POST /api/chat
ContextLimit == 2000
SearchLimit == 5
NoMatch == <<78, 111, 32, 109, 97, 116, 99, 104, 105, 110, 103, 32, 116, 101, 120, 116,
             32, 102, 111, 117, 110, 100, 46>>

\* String.prototype.split on a one-character separator
RECURSIVE Split(_, _)
Split(text, sep) ==
    IF \E k \in DOMAIN text : text[k] = sep
    THEN LET k == CHOOSE k \in DOMAIN text :
                     text[k] = sep /\ \A j \in 1..(k - 1) : text[j] # sep
         IN  <<SubSeq(text, 1, k - 1)>> \o Split(SubSeq(text, k + 1, Len(text)), sep)
    ELSE <<text>>

\* Array.prototype.join
RECURSIVE Join(_, _)
Join(parts, sep) ==
    IF parts = <<>> THEN <<>>
    ELSE IF Len(parts) = 1 THEN parts[1]
    ELSE parts[1] \o <<sep>> \o Join(Tail(parts), sep)

\* String.prototype.toLowerCase, on the characters below U+0080
ToLowerCase(text) == [k \in DOMAIN text |-> IF text[k] >= 65 /\ text[k] <= 90
                                            THEN text[k] + 32 ELSE text[k]]

\* String.prototype.includes
Includes(text, q) ==
    \E k \in 1..(Len(text) - Len(q) + 1) : SubSeq(text, k, k + Len(q) - 1) = q

\* properties every object inherits (two of them)
InheritedKeys == {K_constructor, <<116, 111, 83, 116, 114, 105, 110, 103>>}

IsIndexOf(arr, key) == Len(key) = 1 /\ IsDigit(key[1]) /\ key[1] - 48 < Len(arr)

\* current && typeof current === "object" && key in current
HasKey(current, key) ==
    \/ current.t = "obj" /\ (key \in DOMAIN current.v \/ key \in InheritedKeys)
    \/ current.t = "arr" /\ (IsIndexOf(current.v, key) \/ key = K_length
                             \/ key \in InheritedKeys)

\* current[key], where HasKey
GetKey(current, key) ==
    IF current.t = "obj" /\ key \in DOMAIN current.v THEN current.v[key]
    ELSE IF current.t = "arr" /\ IsIndexOf(current.v, key) THEN current.v[key[1] - 48 + 1]
    ELSE IF current.t = "arr" /\ key = K_length THEN JNum(Len(current.v))
    ELSE JFunction

\* the loop over fieldPath of get_extracted_data
RECURSIVE FollowPath(_, _)
FollowPath(current, fieldPath) ==
    IF fieldPath = <<>> THEN current
    ELSE IF HasKey(current, Head(fieldPath))
    THEN FollowPath(GetKey(current, Head(fieldPath)), Tail(fieldPath))
    ELSE JNull

\* the content of a tool result: JSON.stringify of a value, or a text
JsonContent(value) == [kind |-> "json", json |-> value, text |-> <<>>]
TextContent(text) == [kind |-> "text", json |-> JNull, text |-> text]

\* args.field, args.query: the text of the property, empty when it is absent
TextArg(args, key) == IF key \in DOMAIN args.v /\ args.v[key].t = "str"
                      THEN args.v[key].v ELSE <<>>

\* get_extracted_data on the parsed arguments
GetExtractedData(document, args) ==
    LET field == TextArg(args, K_field)
    IN  IF field # <<>>
        THEN JsonContent(FollowPath(document.extracted, Split(field, Dot)))
        ELSE JsonContent(document.extracted)

\* a search that lowers the case of the query only
SearchDocumentText_caseSensitive(document, args) ==
    LET query == ToLowerCase(TextArg(args, K_query))
        lines == Split(document.text, LineFeed)
        matching == SelectSeq(lines, LAMBDA line : Includes(line, query))
        matchingLines == Join(Take(matching, SearchLimit), LineFeed)
    IN  TextContent(IF matchingLines # <<>> THEN matchingLines ELSE NoMatch)

\* search_document_text on the parsed arguments
SearchDocumentText(document, args) ==
    LET query == ToLowerCase(TextArg(args, K_query))
        lines == Split(document.text, LineFeed)
        matching == SelectSeq(lines, LAMBDA line : Includes(ToLowerCase(line), query))
        matchingLines == Join(Take(matching, SearchLimit), LineFeed)
    IN  TextContent(IF matchingLines # <<>> THEN matchingLines ELSE NoMatch)

\* JSON.parse(toolCall.function.arguments || "{}")
ParseArguments(toolCall) ==
    JSONParse(IF toolCall.function.arguments = "" THEN "{}" ELSE toolCall.function.arguments)

HandlesToolCall(toolCall) ==
    /\ toolCall.type = "function"
    /\ toolCall.function.name \in {"get_extracted_data", "search_document_text"}

\* a tool call whose handling throws: JSON.parse fails, or args is null
ToolCallThrows(toolCall) ==
    /\ HandlesToolCall(toolCall)
    /\ \/ ~IsSome(ParseArguments(toolCall))
       \/ Get(ParseArguments(toolCall)) = JNull

\* the for loop over assistantMessage.tool_calls: the results pushed
RECURSIVE RunTools(_, _)
RunTools(document, toolCalls) ==
    IF toolCalls = <<>> THEN <<>>
    ELSE LET toolCall == Head(toolCalls)
             args == Get(ParseArguments(toolCall))
             rest == RunTools(document, Tail(toolCalls))
         IN  IF ~HandlesToolCall(toolCall) THEN rest
             ELSE <<[role |-> "tool",
                     tool_call_id |-> toolCall.id,
                     name |-> toolCall.function.name,
                     content |-> IF toolCall.function.name = "get_extracted_data"
                                 THEN GetExtractedData(document, args)
                                 ELSE SearchDocumentText(document, args)]>> \o rest

\* ------------------------------------------- inputs of a chat turn
ToolCall(id, type, name, arguments) ==
    [id |-> id, type |-> type, function |-> [name |-> name, arguments |-> arguments]]

TC_get == ToolCall("call_1", "function", "get_extracted_data", "{\"field\":\"person.name\"}")
TC_search == ToolCall("call_2", "function", "search_document_text", "{\"query\":\"SSN\"}")
TC_all == ToolCall("call_3", "function", "get_extracted_data", "")
TC_bad == ToolCall("call_4", "function", "get_extracted_data", "{bad")
TC_unknown == ToolCall("call_5", "function", "delete_document", "{}")
TC_custom == ToolCall("call_6", "custom", "get_extracted_data", "{}")

\* a message of the completion service; content and tool_calls may be null
Completion(content, toolCalls) ==
    [role |-> "assistant", content |-> content, tool_calls |-> toolCalls]

FirstCompletions == {
    Completion(Some("The SSN is redacted."), None),
    Completion(None, Some(<<>>)),
    Completion(None, Some(<<TC_get>>)),
    Completion(Some("Let me look."), Some(<<TC_search, TC_all>>)),
    Completion(None, Some(<<TC_get, TC_bad>>)),
    Completion(None, Some(<<TC_unknown, TC_custom>>)) }

FinalCompletions == {
    Completion(Some("The name is John Doe."), None),
    Completion(None, Some(<<TC_search>>)) }

UserMsg(content) == [role |-> "user", content |-> content]
AssistantMsg(content) == [role |-> "assistant", content |-> content]

\* the messages property of the request body: absent, not an array, an array
Bodies == {
    [kind |-> "absent", items |-> <<>>],
    [kind |-> "string", items |-> <<>>],
    [kind |-> "array", items |-> <<>>],
    [kind |-> "array", items |-> <<AssistantMsg("Hello")>>],
    [kind |-> "array", items |-> <<UserMsg("What is the SSN?")>>],
    [kind |-> "array", items |-> <<UserMsg("Who is it?"), AssistantMsg("John Doe."),
                                   UserMsg("And the SSN?")>>] }

ChatDocIds == {None, Some(1), Some(2), Some(9)}

ChatError(status, msg) ==
    [status |-> status, error |-> Some(msg), message |-> None, toolCalls |-> None]
ChatOk(message, toolCalls) ==
    [status |-> 200, error |-> None, message |-> Some(message), toolCalls |-> toolCalls]

\* the route returns: its locals go out of scope
ChatReturn(t, evs, rows, resp) ==
    chat' = [chat EXCEPT ![t] = [ChatInit EXCEPT
                !.pc = "done",
                !.request = chat[t].request,
                !.log = Summary(chat[t].log \o evs),
                !.wrote = chat[t].wrote \o rows,
                !.response = Some(resp)]]

\* a catch block that undoes the turn's write
ChatFail_rollback(t, err, evs) ==
    /\ ChatReturn(t, evs \o <<Ev("throw")>>, <<>>, ChatError(500, CatchMessage(err)))
    /\ chatMessages' = SelectSeq(chatMessages,
                                 LAMBDA m : chat[t].savedUserMessage # Some(m))
    /\ UNCHANGED now

\* catch (err) of the chat route; evs: the call that threw
ChatFail(t, err, evs) ==
    /\ ChatReturn(t, evs \o <<Ev("throw")>>, <<>>, ChatError(500, CatchMessage(err)))
    /\ UNCHANGED <<chatMessages, now>>

\* req.json() and the check of documentId and messages
ChatReceive(t) ==
    /\ chat[t].pc = "new"
    /\ \A u \in TurnIds : u < t => chat[u].pc # "new"
    /\ \/ \E e \in Thrown : ChatFail(t, e, <<>>)
       \/ /\ \E documentId \in ChatDocIds, body \in Bodies :
                LET request == Some([documentId |-> documentId, messages |-> body])
                IN  IF ~IsSome(documentId) \/ body.kind # "array"
                    THEN chat' = [chat EXCEPT ![t] = [ChatInit EXCEPT
                            !.pc = "done",
                            !.request = request,
                            !.response =
                               Some(ChatError(400, "Missing documentId or messages"))]]
                    ELSE chat' = [chat EXCEPT ![t].pc = "find",
                                              ![t].request = request,
                                              ![t].documentId = documentId,
                                              ![t].messages = body.items]
          /\ UNCHANGED <<chatMessages, now>>
    /\ UNCHANGED <<documents, embeddings, ingest, docsRead, messagesRead, sanitized, evaluated>>

\* a lookup that lets any non-empty history through
ChatFindDocument_unchecked(t) ==
    /\ chat[t].pc = "find"
    /\ LET found == DocumentsWithId(Get(chat[t].documentId))
       IN  IF found = <<>>
           THEN ChatReturn(t, <<Ev("findDocument")>>, <<>>, ChatError(404, "Document not found"))
           ELSE IF chat[t].messages = <<>>
           THEN ChatReturn(t, <<Ev("findDocument")>>, <<>>,
                           ChatError(400, "Last message must be from user"))
           ELSE chat' = [chat EXCEPT ![t].pc = "saveUser",
                                     ![t].log = Logged(@, <<Ev("findDocument")>>),
                                     ![t].document = Some(found[1])]
    /\ UNCHANGED <<chatMessages, now, documents, embeddings, ingest, docsRead, messagesRead,
                   sanitized, evaluated>>

\* a route that checks the last message before it looks the document up
ChatFindDocument_validatesFirst(t) ==
    /\ chat[t].pc = "find"
    /\ LET found == DocumentsWithId(Get(chat[t].documentId))
           messages == chat[t].messages
       IN  IF messages = <<>> \/ messages[Len(messages)].role # "user"
           THEN ChatReturn(t, <<>>, <<>>, ChatError(400, "Last message must be from user"))
           ELSE IF found = <<>>
           THEN ChatReturn(t, <<Ev("findDocument")>>, <<>>, ChatError(404, "Document not found"))
           ELSE chat' = [chat EXCEPT ![t].pc = "saveUser",
                                     ![t].log = Logged(@, <<Ev("findDocument")>>),
                                     ![t].document = Some(found[1])]
    /\ UNCHANGED <<chatMessages, now, documents, embeddings, ingest, docsRead, messagesRead,
                   sanitized, evaluated>>

\* db.document.findUnique, the 404, and the check of the last message
ChatFindDocument(t) ==
    /\ chat[t].pc = "find"
    /\ \/ \E e \in Thrown : ChatFail(t, e, <<Ev("findDocument")>>)
       \/ /\ LET found == DocumentsWithId(Get(chat[t].documentId))
                 messages == chat[t].messages
             IN  IF found = <<>>
                 THEN ChatReturn(t, <<Ev("findDocument")>>, <<>>,
                                 ChatError(404, "Document not found"))
                 ELSE IF messages = <<>> \/ messages[Len(messages)].role # "user"
                 THEN ChatReturn(t, <<Ev("findDocument")>>, <<>>,
                                 ChatError(400, "Last message must be from user"))
                 ELSE chat' = [chat EXCEPT ![t].pc = "saveUser",
                                           ![t].log = Logged(@, <<Ev("findDocument")>>),
                                           ![t].document = Some(found[1])]
          /\ UNCHANGED <<chatMessages, now>>
    /\ UNCHANGED <<documents, embeddings, ingest, docsRead, messagesRead, sanitized, evaluated>>

\* the first message of the history taken for the last
LastMessage_first(t) == chat[t].messages[1]

LastMessage(t) == chat[t].messages[Len(chat[t].messages)]

\* a turn that keeps the user message to write it with the reply
ChatSaveUser_deferred(t) ==
    /\ chat[t].pc = "saveUser"
    /\ chat' = [chat EXCEPT ![t].pc = "embedQuery"]
    /\ UNCHANGED <<chatMessages, now, documents, embeddings, ingest, docsRead, messagesRead, sanitized, evaluated>>

\* db.chatMessage.create of the user message
ChatSaveUser(t) ==
    /\ chat[t].pc = "saveUser"
    /\ \/ \E e \in Thrown : ChatFail(t, e, <<Ev("saveUser")>>)
       \/ \E ts \in Timestamps :
             LET row == [id |-> Len(chatMessages) + 1,
                         documentId |-> Get(chat[t].documentId),
                         role |-> "user",
                         content |-> LastMessage(t).content,
                         toolCalls |-> None,
                         createdAt |-> ts]
             IN  /\ chatMessages' = Append(chatMessages, row)
                 /\ now' = ts
                 /\ chat' = [chat EXCEPT ![t].pc = "embedQuery",
                                         ![t].log = Logged(@, <<Ev("saveUser")>>),
                                         ![t].wrote = @ \o <<<<"user", row.id>>>>,
                                         ![t].savedUserMessage = Some(row)]
    /\ UNCHANGED <<documents, embeddings, ingest, docsRead, messagesRead, sanitized, evaluated>>

\* openai.embeddings.create on the content of the last message
ChatEmbedQuery(t) ==
    /\ chat[t].pc = "embedQuery"
    /\ LET call == Call("embed", LastMessage(t).content)
       IN  \/ \E e \in Thrown : ChatFail(t, e, <<call>>)
           \/ /\ \E v \in Vectors :
                    chat' = [chat EXCEPT ![t].pc = "retrieve",
                                         ![t].log = Logged(@, <<call>>),
                                         ![t].queryEmbedding = Some(v)]
              /\ UNCHANGED <<chatMessages, now>>
    /\ UNCHANGED <<documents, embeddings, ingest, docsRead, messagesRead, sanitized, evaluated>>

\* the operator <-> of pgvector: the Euclidean distance (the vectors of the
\* model have whole distances)
L2Distance(a, b) ==
    LET sq == SeqSum([k \in DOMAIN a |-> (a[k] - b[k]) * (a[k] - b[k])])
    IN  CHOOSE r \in 0..sq : r * r <= sq /\ (r + 1) * (r + 1) > sq

\* the JOIN without its WHERE clause: the embeddings of every document
JoinedRows_allDocuments(documentId, vector) ==
    [k \in DOMAIN embeddings |->
        LET d == DocumentsWithId(embeddings[k].documentId)[1]
        IN  [id |-> d.id, text |-> d.text, extracted |-> d.extracted,
             schema |-> d.schema, distance |-> L2Distance(embeddings[k].vector, vector)]]

\* the rows of the JOIN ... WHERE d.id = $2, before ORDER BY
JoinedRows(documentId, vector) ==
    LET es == SelectSeq(embeddings,
                  LAMBDA e : e.documentId = documentId /\ DocumentsWithId(documentId) # <<>>)
    IN  [k \in DOMAIN es |->
            LET d == DocumentsWithId(es[k].documentId)[1]
            IN  [id |-> d.id, text |-> d.text, extracted |-> d.extracted,
                 schema |-> d.schema, distance |-> L2Distance(es[k].vector, vector)]]

\* ORDER BY distance LIMIT 3: rows at equal distance come in any order
RelevantDocs(documentId, vector) ==
    LET rows == JoinedRows(documentId, vector)
        n == Len(rows)
    IN  { Take([k \in 1..n |-> rows[p[k]]], RetrieveLimit) :
            p \in { q \in [1..n -> 1..n] :
                      /\ \A a, b \in 1..n : a # b => q[a] # q[b]
                      /\ \A a, b \in 1..n :
                            a < b => rows[q[a]].distance <= rows[q[b]].distance } }

\* the context taken from the retrieved records only
ContextText_relevantOnly(relevantDocs, document) ==
    IF Len(relevantDocs) > 0 THEN relevantDocs[1].text ELSE <<>>

\* relevantDocs.length > 0 ? relevantDocs[0].text || document.text : document.text
ContextText(relevantDocs, document) ==
    IF Len(relevantDocs) > 0 /\ relevantDocs[1].text # <<>>
    THEN relevantDocs[1].text
    ELSE document.text

\* a marker that is also set for a context text of exactly the limit
SystemMessage_atLimit(contextText, document) ==
    [role |-> "system",
     content |-> [excerpt |-> Take(contextText, ContextLimit),
                  marker |-> Len(contextText) >= ContextLimit,
                  extracted |-> document.extracted,
                  schema |-> document.schema]]

\* the system message: the excerpt of the context text, the marker "...", the
\* extracted object and the schema
SystemMessage(contextText, document) ==
    [role |-> "system",
     content |-> [excerpt |-> Take(contextText, ContextLimit),
                  marker |-> Len(contextText) > ContextLimit,
                  extracted |-> document.extracted,
                  schema |-> document.schema]]

\* db.$queryRawUnsafe of the nearest embeddings; contextText and systemMessage
\* (queryEmbedding is not read after the query)
ChatRetrieve(t) ==
    /\ chat[t].pc = "retrieve"
    /\ \/ \E e \in Thrown : ChatFail(t, e, <<Ev("retrieve")>>)
       \/ /\ \E relevantDocs \in RelevantDocs(Get(chat[t].documentId),
                                              Get(chat[t].queryEmbedding)) :
                LET document == Get(chat[t].document)
                    contextText == ContextText(relevantDocs, document)
                IN  chat' = [chat EXCEPT
                       ![t].pc = "complete",
                       ![t].log = Logged(@, <<[ev |-> "retrieve", arg |-> relevantDocs]>>),
                       ![t].queryEmbedding = None,
                       ![t].systemMessage = Some(SystemMessage(contextText, document))]
          /\ UNCHANGED <<chatMessages, now>>
    /\ UNCHANGED <<documents, embeddings, ingest, docsRead, messagesRead, sanitized, evaluated>>

\* assistantMessage.tool_calls && assistantMessage.tool_calls.length > 0
HasToolCalls(message) == IsSome(message.tool_calls) /\ Len(Get(message.tool_calls)) > 0

\* the first openai.chat.completions.create, then the tools it asks for
ChatComplete(t) ==
    /\ chat[t].pc = "complete"
    /\ LET call == Call("complete", <<Get(chat[t].systemMessage)>> \o chat[t].messages)
       IN  \/ \E e \in Thrown : ChatFail(t, e, <<call>>)
           \/ \E m \in FirstCompletions :
                 LET answer == [ev |-> "answer", arg |-> m]
                 IN  IF HasToolCalls(m)
                     THEN IF \E k \in DOMAIN Get(m.tool_calls) :
                                ToolCallThrows(Get(m.tool_calls)[k])
                          THEN ChatFail(t, Some("Unexpected token in JSON"),
                                        <<call, answer, Ev("tools")>>)
                          ELSE /\ chat' = [chat EXCEPT
                                     ![t].pc = "complete2",
                                     ![t].log = Logged(@, <<call, answer, Ev("tools")>>),
                                     ![t].assistantMessage = Some(m),
                                     ![t].toolResults =
                                        RunTools(Get(chat[t].document), Get(m.tool_calls))]
                               /\ UNCHANGED <<chatMessages, now>>
                     ELSE /\ chat' = [chat EXCEPT ![t].pc = "saveAssistant",
                                                  ![t].log = Logged(@, <<call, answer>>),
                                                  ![t].assistantMessage = Some(m)]
                          /\ UNCHANGED <<chatMessages, now>>
    /\ UNCHANGED <<documents, embeddings, ingest, docsRead, messagesRead, sanitized, evaluated>>

\* a turn that asks again while the answer requests tools
ChatComplete2_loop(t) ==
    /\ chat[t].pc = "complete2"
    /\ LET call == Call("complete", <<Get(chat[t].systemMessage)>> \o chat[t].messages
                                     \o <<Get(chat[t].assistantMessage)>> \o chat[t].toolResults)
       IN  \E m \in FinalCompletions :
              chat' = [chat EXCEPT
                 ![t].pc = IF HasToolCalls(m) THEN "complete2" ELSE "saveAssistant",
                 ![t].log = Logged(@, <<call, [ev |-> "answer", arg |-> m]>>),
                 ![t].finalMessage = Some(m)]
    /\ UNCHANGED <<chatMessages, now, documents, embeddings, ingest, docsRead, messagesRead, sanitized, evaluated>>

\* the second openai.chat.completions.create, with the tool results
ChatComplete2(t) ==
    /\ chat[t].pc = "complete2"
    /\ LET call == Call("complete", <<Get(chat[t].systemMessage)>> \o chat[t].messages
                                     \o <<Get(chat[t].assistantMessage)>> \o chat[t].toolResults)
       IN  \/ \E e \in Thrown : ChatFail(t, e, <<call>>)
           \/ /\ \E m \in FinalCompletions :
                    chat' = [chat EXCEPT ![t].pc = "saveAssistant",
                                         ![t].log = Logged(@, <<call, [ev |-> "answer", arg |-> m]>>),
                                         ![t].finalMessage = Some(m)]
              /\ UNCHANGED <<chatMessages, now>>
    /\ UNCHANGED <<documents, embeddings, ingest, docsRead, messagesRead, sanitized, evaluated>>

\* the toolCalls of the assistant row, taken from the final message
ToolCallsRecord_final(assistantMessage, finalMessage) ==
    IF HasToolCalls(assistantMessage)
    THEN (IF HasToolCalls(Get(finalMessage)) THEN Get(finalMessage).tool_calls ELSE None)
    ELSE None

\* toolCalls: assistantMessage.tool_calls || null, or null without tool calls
ToolCallsRecord(assistantMessage, finalMessage) ==
    IF HasToolCalls(assistantMessage) THEN assistantMessage.tool_calls ELSE None

\* content || ""
ContentOrEmpty(message) == IF IsSome(message.content) THEN Get(message.content) ELSE ""

\* a turn that stores the text of the first answer, also when tools fired
ChatSaveAssistant_firstContent(t) ==
    /\ chat[t].pc = "saveAssistant"
    /\ LET assistantMessage == Get(chat[t].assistantMessage)
           final == IF HasToolCalls(assistantMessage) THEN Get(chat[t].finalMessage)
                    ELSE assistantMessage
       IN  \/ \E e \in Thrown : ChatFail(t, e, <<Ev("saveAssistant")>>)
           \/ \E ts \in Timestamps :
                 LET row == [id |-> Len(chatMessages) + 1,
                             documentId |-> Get(chat[t].documentId),
                             role |-> "assistant",
                             content |-> ContentOrEmpty(assistantMessage),
                             toolCalls |-> ToolCallsRecord(assistantMessage,
                                                           chat[t].finalMessage),
                             createdAt |-> ts]
                 IN  /\ chatMessages' = Append(chatMessages, row)
                     /\ now' = ts
                     /\ ChatReturn(t, <<Ev("saveAssistant")>>, <<<<"assistant", row.id>>>>,
                                   ChatOk(final, IF HasToolCalls(assistantMessage)
                                                 THEN assistantMessage.tool_calls ELSE None))
    /\ UNCHANGED <<documents, embeddings, ingest, docsRead, messagesRead, sanitized, evaluated>>

\* a store of one assistant message per document: a later reply takes the
\* place of the one there
ChatSaveAssistant_overwrite(t) ==
    /\ chat[t].pc = "saveAssistant"
    /\ LET assistantMessage == Get(chat[t].assistantMessage)
           final == IF HasToolCalls(assistantMessage) THEN Get(chat[t].finalMessage)
                    ELSE assistantMessage
           documentId == Get(chat[t].documentId)
           there == {k \in DOMAIN chatMessages :
                        /\ chatMessages[k].documentId = documentId
                        /\ chatMessages[k].role = "assistant"}
       IN  \E ts \in Timestamps :
              LET id == IF there = {} THEN Len(chatMessages) + 1
                        ELSE chatMessages[CHOOSE k \in there : TRUE].id
                  row == [id |-> id,
                          documentId |-> documentId,
                          role |-> "assistant",
                          content |-> ContentOrEmpty(final),
                          toolCalls |-> ToolCallsRecord(assistantMessage, chat[t].finalMessage),
                          createdAt |-> ts]
              IN  /\ chatMessages' = IF there = {} THEN Append(chatMessages, row)
                                     ELSE [k \in DOMAIN chatMessages |->
                                             IF k \in there THEN row ELSE chatMessages[k]]
                  /\ now' = ts
                  /\ ChatReturn(t, <<Ev("saveAssistant")>>, <<<<"assistant", row.id>>>>,
                                ChatOk(final, IF HasToolCalls(assistantMessage)
                                              THEN assistantMessage.tool_calls ELSE None))
    /\ UNCHANGED <<documents, embeddings, ingest, docsRead, messagesRead, sanitized, evaluated>>

\* db.chatMessage.create of the assistant message, then the response
ChatSaveAssistant(t) ==
    /\ chat[t].pc = "saveAssistant"
    /\ LET assistantMessage == Get(chat[t].assistantMessage)
           final == IF HasToolCalls(assistantMessage) THEN Get(chat[t].finalMessage)
                    ELSE assistantMessage
       IN  \/ \E e \in Thrown : ChatFail(t, e, <<Ev("saveAssistant")>>)
           \/ \E ts \in Timestamps :
                 LET row == [id |-> Len(chatMessages) + 1,
                             documentId |-> Get(chat[t].documentId),
                             role |-> "assistant",
                             content |-> ContentOrEmpty(final),
                             toolCalls |-> ToolCallsRecord(assistantMessage,
                                                           chat[t].finalMessage),
                             createdAt |-> ts]
                 IN  /\ chatMessages' = Append(chatMessages, row)
                     /\ now' = ts
                     /\ ChatReturn(t, <<Ev("saveAssistant")>>, <<<<"assistant", row.id>>>>,
                                   ChatOk(final, IF HasToolCalls(assistantMessage)
                                                 THEN assistantMessage.tool_calls ELSE None))
    /\ UNCHANGED <<documents, embeddings, ingest, docsRead, messagesRead, sanitized, evaluated>>

\* ---------------------------------------------------------- GET /api/docs
DocIdInputs == {1, 9}
DocsListLimit == 50

\* the orders in which ORDER BY "createdAt" DESC may return the rows; rows with
\* equal createdAt come in any order
OrderedByCreatedAtDesc(rows) ==
    { [k \in 1..Len(rows) |-> rows[p[k]]] :
        p \in { q \in [1..Len(rows) -> 1..Len(rows)] :
                  /\ \A a, b \in 1..Len(rows) : a # b => q[a] # q[b]
                  /\ \A a, b \in 1..Len(rows) :
                        a < b => rows[q[a]].createdAt >= rows[q[b]].createdAt } }

DocsResponse(status, docs, embs) == [status |-> status, docs |-> docs, embeddings |-> embs]

\* ?doc=<id>: findUnique with its embeddings, or 404; no parameter: the 50
\* latest documents; a failing read is answered with 500
DocsGet ==
    /\ \/ docsRead' = Some(DocsResponse(500, <<>>, <<>>))
       \/ \E id \in DocIdInputs :
             IF DocumentsWithId(id) = <<>>
             THEN docsRead' = Some(DocsResponse(404, <<>>, <<>>))
             ELSE docsRead' = Some(DocsResponse(200, DocumentsWithId(id), EmbeddingsOf(id)))
       \/ \E docs \in OrderedByCreatedAtDesc(documents) :
             docsRead' = Some(DocsResponse(200, Take(docs, DocsListLimit), <<>>))
    /\ UNCHANGED <<documents, embeddings, chatMessages, now, ingest, chat, messagesRead,
                   sanitized, evaluated>>

NextIngest ==
    \/ \E i \in IngestIds :
        \/ IngestReceive(i)
        \/ IngestExtract(i)
        \/ IngestDiscover(i)
        \/ IngestPersist(i)
        \/ IngestEmbed(i)
        \/ IngestStore(i)
    \/ DocsGet

SpecIngest == Init /\ [][NextIngest]_vars

\* the ingestions with the steps that something makes happen: the form is
\* read from the request that has arrived, and the requests of the OpenAI
\* client end after the default timeout of the library (the code sets none).
\* The store calls go through the Prisma client, made without any timeout:
\* nothing ends a query that the database does not answer, so no fairness is
\* stated for IngestPersist and IngestStore
IngestBoundedStep ==
    \E i \in IngestIds :
        \/ IngestReceive(i)
        \/ IngestDiscover(i)
        \/ IngestEmbed(i)

SpecIngestLive == Init /\ [][NextIngest]_vars /\ WF_vars(IngestBoundedStep)

\* the steps of one turn
ChatStep(t) ==
    \/ ChatReceive(t)
    \/ ChatFindDocument(t)
    \/ ChatSaveUser(t)
    \/ ChatEmbedQuery(t)
    \/ ChatRetrieve(t)
    \/ ChatComplete(t)
    \/ ChatComplete2(t)
    \/ ChatSaveAssistant(t)

NextChat ==
    \E t \in TurnIds :
        \/ ChatReceive(t)
        \/ ChatFindDocument(t)
        \/ ChatSaveUser(t)
        \/ ChatEmbedQuery(t)
        \/ ChatRetrieve(t)
        \/ ChatComplete(t)
        \/ ChatComplete2(t)
        \/ ChatSaveAssistant(t)

\* a store that two ingestions leave: a.txt with its embedding, then c.txt,
\* whose text is too short to embed
SeedFileA == [name |-> "a.txt", type |-> "text/plain", content |-> TextSSN]
SeedFileB == [name |-> "c.txt", type |-> "text/plain", content |-> TextPadded]
SeedText(file) == redactPII(sanitizeForPostgresText(extractTextFromFile(file)))
SeedDocuments ==
    <<NewDocument(1, SeedFileA, SeedText(SeedFileA),
                  discoverSchemaAndExtract(Some("{schema,extracted,confidence}")), 0),
      NewDocument(2, SeedFileB, SeedText(SeedFileB),
                  discoverSchemaAndExtract(Some("{}")), 1)>>
SeedEmbeddings == <<[id |-> 1, documentId |-> 1, vector |-> <<3, 4>>]>>
SeedNow == SeedDocuments[2].createdAt

InitChat ==
    /\ documents = SeedDocuments
    /\ embeddings = SeedEmbeddings
    /\ chatMessages = <<>>
    /\ now = SeedNow
    /\ ingest = [i \in IngestIds |-> IngestInit]
    /\ docsRead = None
    /\ chat = [t \in TurnIds |-> ChatInit]
    /\ messagesRead = None
    /\ sanitized = NoCall
    /\ evaluated = NoEvaluation

SpecChat == InitChat /\ [][NextChat]_vars

\* ------------------------------------------------- GET /api/chat/messages
\* a findMany without its where clause
MessagesOf_all(documentId) == chatMessages

MessagesOf(documentId) == SelectSeq(chatMessages, LAMBDA m : m.documentId = documentId)

\* the orders in which ORDER BY "createdAt" ASC may return the rows; rows with
\* equal createdAt come in any order
OrderedByCreatedAtAsc(rows) ==
    { [k \in 1..Len(rows) |-> rows[p[k]]] :
        p \in { q \in [1..Len(rows) -> 1..Len(rows)] :
                  /\ \A a, b \in 1..Len(rows) : a # b => q[a] # q[b]
                  /\ \A a, b \in 1..Len(rows) :
                        a < b => rows[q[a]].createdAt <= rows[q[b]].createdAt } }

\* select: id, role, content, toolCalls, createdAt
SelectMessage(m) ==
    [id |-> m.id, role |-> m.role, content |-> m.content, toolCalls |-> m.toolCalls,
     createdAt |-> m.createdAt]

\* a response, with the documentId parameter of its request
MessagesError(documentId, status, msg) ==
    [documentId |-> documentId, status |-> status, error |-> Some(msg), messages |-> <<>>]
MessagesOk(documentId, rows) ==
    [documentId |-> documentId, status |-> 200, error |-> None,
     messages |-> [k \in DOMAIN rows |-> SelectMessage(rows[k])]]

\* the documentId parameter: absent, a document with messages, no document
MessagesDocIds == {None, Some(1), Some(9)}

\* ?documentId=<id>: 400 without it; else findMany of the messages of that id,
\* oldest first; a failing read is answered with 500
MessagesGet ==
    /\ \E documentId \in MessagesDocIds :
          IF ~IsSome(documentId)
          THEN messagesRead' = Some(MessagesError(documentId, 400, "Missing documentId"))
          ELSE \/ \E e \in Thrown :
                     messagesRead' = Some(MessagesError(documentId, 500, CatchMessage(e)))
               \/ \E rows \in OrderedByCreatedAtAsc(MessagesOf(Get(documentId))) :
                     messagesRead' = Some(MessagesOk(documentId, rows))
    /\ UNCHANGED <<documents, embeddings, chatMessages, now, ingest, docsRead, chat,
                   sanitized, evaluated>>

\* return NextResponse.json(...): the response is with the client, the route
\* keeps nothing of it
MessagesSent ==
    /\ messagesRead # None
    /\ messagesRead' = None
    /\ UNCHANGED <<documents, embeddings, chatMessages, now, ingest, docsRead, chat,
                   sanitized, evaluated>>

\* the chat turns and the transcript reads served one after the other: a
\* request is taken up only when no other request is between its first and its
\* last step
InFlight(pc) == pc \notin {"new", "done"}
NoRequestInFlight ==
    /\ \A t \in TurnIds : ~InFlight(chat[t].pc)
    /\ messagesRead = None

NextTurns ==
    \/ \E t \in TurnIds :
        /\ NoRequestInFlight \/ InFlight(chat[t].pc)
        /\ \/ ChatReceive(t)
           \/ ChatFindDocument(t)
           \/ ChatSaveUser(t)
           \/ ChatEmbedQuery(t)
           \/ ChatRetrieve(t)
           \/ ChatComplete(t)
           \/ ChatComplete2(t)
           \/ ChatSaveAssistant(t)
    \/ NoRequestInFlight /\ MessagesGet
    \/ MessagesSent

\* the two explorations side by side: the ingestions and the document reads
\* from the empty store, the chat turns and the transcript reads from the
\* seeded store.  No step leaves its side: a chat step changes neither
\* documents, ingest nor docsRead, and from the empty store no Document row
\* exists before an ingestion has started.
IngestSide ==
    \/ documents = <<>>
    \/ \E i \in IngestIds : ingest[i].pc # "new"
    \/ docsRead # None

InitAll == Init \/ InitChat

NextAll ==
    \/ IngestSide /\ NextIngest
    \/ ~IngestSide /\ NextTurns

SpecAll == InitAll /\ [][NextAll]_vars

\* ------------------------------------------- sanitizeForPostgresText alone
MaxInputLen == 3

\* NUL, BEL, tab, line feed, vertical tab, carriage return, US, "A", DEL
InputChars == {0, 7, 9, 10, 11, 13, 31, 65, 127}

RECURSIVE Strings(_)
Strings(n) ==
    IF n = 0 THEN {<<>>}
    ELSE Strings(n - 1)
         \cup {Append(s, c) : s \in {x \in Strings(n - 1) : Len(x) = n - 1}, c \in InputChars}

\* sanitizeForPostgresText(input)
SanitizeCall ==
    /\ sanitized.output = None
    /\ sanitized' = [sanitized EXCEPT !.output = Some(sanitizeForPostgresText(sanitized.input))]
    /\ UNCHANGED <<documents, embeddings, chatMessages, now, ingest, docsRead, chat,
                   messagesRead, evaluated>>

\* sanitizeForPostgresText on what the first call returned
SanitizeAgain ==
    /\ IsSome(sanitized.output)
    /\ sanitized.again = None
    /\ sanitized' = [sanitized EXCEPT !.again = Some(sanitizeForPostgresText(Get(sanitized.output)))]
    /\ UNCHANGED <<documents, embeddings, chatMessages, now, ingest, docsRead, chat,
                   messagesRead, evaluated>>

InitSanitize ==
    /\ documents = <<>>
    /\ embeddings = <<>>
    /\ chatMessages = <<>>
    /\ now = 0
    /\ ingest = [i \in IngestIds |-> IngestInit]
    /\ docsRead = None
    /\ chat = [t \in TurnIds |-> ChatInit]
    /\ messagesRead = None
    /\ sanitized \in {[input |-> s, output |-> None, again |-> None] : s \in Strings(MaxInputLen)}
    /\ evaluated = NoEvaluation

NextSanitize ==
    \/ SanitizeCall
    \/ SanitizeAgain

SpecSanitize == InitSanitize /\ [][NextSanitize]_vars

\* ------------------------------------------------------------ redactPII alone
MaxPieces == 3

\* "123-45-6789", sixteen digits, and what may stand next to them: a blank, a
\* letter, a digit, a dash
PieceSSN == <<49, 50, 51, 45, 52, 53, 45, 54, 55, 56, 57>>
PieceCard == <<52>> \o Rep(49, CardLen - 1)
Pieces == {PieceSSN, PieceCard, <<32>>, <<120>>, <<55>>, <<Dash>>}

\* the texts made of at most n pieces
RECURSIVE Texts(_)
Texts(n) ==
    IF n = 0 THEN {<<>>}
    ELSE Texts(n - 1) \cup {s \o piece : s \in Texts(n - 1), piece \in Pieces}

\* redactPII(text)
RedactCall ==
    /\ evaluated.fn = "redactPII"
    /\ evaluated.output = None
    /\ evaluated' = [evaluated EXCEPT !.output = Some(redactPII(evaluated.input))]
    /\ UNCHANGED <<documents, embeddings, chatMessages, now, ingest, docsRead, chat,
                   messagesRead, sanitized>>

\* redactPII on what the first call returned
RedactAgain ==
    /\ evaluated.fn = "redactPII"
    /\ IsSome(evaluated.output)
    /\ evaluated.again = None
    /\ evaluated' = [evaluated EXCEPT !.again = Some(redactPII(Get(evaluated.output)))]
    /\ UNCHANGED <<documents, embeddings, chatMessages, now, ingest, docsRead, chat,
                   messagesRead, sanitized>>

InitRedact ==
    /\ documents = <<>>
    /\ embeddings = <<>>
    /\ chatMessages = <<>>
    /\ now = 0
    /\ ingest = [i \in IngestIds |-> IngestInit]
    /\ docsRead = None
    /\ chat = [t \in TurnIds |-> ChatInit]
    /\ messagesRead = None
    /\ sanitized = NoCall
    /\ evaluated \in {[fn |-> "redactPII", input |-> text, output |-> None, again |-> None] :
                        text \in Texts(MaxPieces)}

NextRedact ==
    \/ RedactCall
    \/ RedactAgain

SpecRedact == InitRedact /\ [][NextRedact]_vars

\* -------------------------------------------- the retrieval of a turn alone
MaxEmbeddings == 4

\* the vectors of the stored embeddings and of the query
RetrieveVectors == Vectors \cup {<<6, 8>>}

\* the DocumentEmbedding tables of at most n rows over the seeded documents;
\* the table has no unique constraint on "documentId"
RECURSIVE EmbeddingTables(_)
EmbeddingTables(n) ==
    IF n = 0 THEN {<<>>}
    ELSE EmbeddingTables(n - 1)
         \cup {Append(es, [id |-> Len(es) + 1, documentId |-> d, vector |-> v]) :
                 es \in {x \in EmbeddingTables(n - 1) : Len(x) = n - 1},
                 d \in {1, 2}, v \in RetrieveVectors}

\* db.$queryRawUnsafe(..., queryVector, documentId)
RetrieveCall ==
    /\ evaluated.fn = "retrieve"
    /\ evaluated.output = None
    /\ \E relevantDocs \in RelevantDocs(evaluated.input.documentId, evaluated.input.vector) :
          evaluated' = [evaluated EXCEPT !.output = Some(relevantDocs)]
    /\ UNCHANGED <<documents, embeddings, chatMessages, now, ingest, docsRead, chat,
                   messagesRead, sanitized>>

InitRetrieve ==
    /\ documents = SeedDocuments
    /\ embeddings \in EmbeddingTables(MaxEmbeddings)
    /\ chatMessages = <<>>
    /\ now = SeedNow
    /\ ingest = [i \in IngestIds |-> IngestInit]
    /\ docsRead = None
    /\ chat = [t \in TurnIds |-> ChatInit]
    /\ messagesRead = None
    /\ sanitized = NoCall
    /\ evaluated \in {[fn |-> "retrieve", input |-> [documentId |-> d, vector |-> v],
                        output |-> None, again |-> None] :
                        d \in {1, 2}, v \in RetrieveVectors}

NextRetrieve == RetrieveCall

SpecRetrieve == InitRetrieve /\ [][NextRetrieve]_vars

\* ------------------------------------------------- the two tools alone
MaxPathLen == 2

\* keys of a field path: keys of the extracted object, array indices, "length",
\* a property every object inherits, and a key that nothing has
PathKeys == {K_doc_type, K_person, K_name, K_email, K_skills, <<48>>, <<49>>, K_length,
             K_constructor, <<120>>}

\* the dotted paths of at most n keys, none for the empty text
RECURSIVE FieldPaths(_)
FieldPaths(n) ==
    IF n = 0 THEN {<<>>}
    ELSE FieldPaths(n - 1)
         \cup {IF path = <<>> THEN key ELSE path \o <<Dot>> \o key :
                 path \in FieldPaths(n - 1), key \in PathKeys}

\* args of get_extracted_data: {} and {"field": path}
GetArgs == {EmptyObj} \cup {JObj(K_field :> JStr(path)) : path \in FieldPaths(MaxPathLen)}

\* texts of a document: none, the seeded text, two empty lines, and eight
\* lines of which six hold "ssn" in some case and one is empty
TextLines ==
    <<83, 83, 78, 32, 97, 10, 115, 115, 110, 32, 98, 10, 10, 97, 98, 99,
      10, 83, 115, 110, 32, 99, 10, 115, 83, 110, 32, 100, 10, 83, 83, 78,
      32, 101, 10, 115, 115, 78, 32, 102>>
SearchTexts == {<<>>, SeedText(SeedFileA), <<LineFeed>>, TextLines}

\* args of search_document_text: {} and {"query": q} for "", "SSN", "ssn",
\* "Doe", "zz"
SearchArgs ==
    {EmptyObj} \cup {JObj(K_query :> JStr(q)) :
                       q \in {<<>>, <<83, 83, 78>>, <<115, 115, 110>>, <<68, 111, 101>>,
                              <<122, 122>>}}

ToolDocuments ==
    {[text |-> text, extracted |-> extracted] :
        text \in SearchTexts, extracted \in {FullExtracted, EmptyObj}}

\* the branch of get_extracted_data, on parsed arguments
ToolGet ==
    /\ evaluated.fn = "get_extracted_data"
    /\ evaluated.output = None
    /\ evaluated' = [evaluated EXCEPT !.output =
                        Some(GetExtractedData(evaluated.input.document, evaluated.input.args))]
    /\ UNCHANGED <<documents, embeddings, chatMessages, now, ingest, docsRead, chat,
                   messagesRead, sanitized>>

\* the branch of search_document_text, on parsed arguments
ToolSearch ==
    /\ evaluated.fn = "search_document_text"
    /\ evaluated.output = None
    /\ evaluated' = [evaluated EXCEPT !.output =
                        Some(SearchDocumentText(evaluated.input.document, evaluated.input.args))]
    /\ UNCHANGED <<documents, embeddings, chatMessages, now, ingest, docsRead, chat,
                   messagesRead, sanitized>>

InitTools ==
    /\ documents = <<>>
    /\ embeddings = <<>>
    /\ chatMessages = <<>>
    /\ now = 0
    /\ ingest = [i \in IngestIds |-> IngestInit]
    /\ docsRead = None
    /\ chat = [t \in TurnIds |-> ChatInit]
    /\ messagesRead = None
    /\ sanitized = NoCall
    /\ evaluated \in
          {[fn |-> "get_extracted_data", input |-> [document |-> d, args |-> a],
            output |-> None, again |-> None] : d \in ToolDocuments, a \in GetArgs}
          \cup
          {[fn |-> "search_document_text", input |-> [document |-> d, args |-> a],
            output |-> None, again |-> None] : d \in ToolDocuments, a \in SearchArgs}

NextTools ==
    \/ ToolGet
    \/ ToolSearch

SpecTools == InitTools /\ [][NextTools]_vars

\* ------------------------------------------------ the system message alone
MaxAround == 8

\* context texts around the limit of the excerpt: ContextLimit - MaxAround to
\* ContextLimit + MaxAround letters, with or without a line feed at the end
ContextTexts ==
    {Rep(c, n) \o tail :
        c \in {97, 98},
        n \in (ContextLimit - MaxAround)..(ContextLimit + MaxAround),
        tail \in {<<>>, <<LineFeed>>}}

\* the systemMessage object of the chat route
SystemMessageCall ==
    /\ evaluated.fn = "systemMessage"
    /\ evaluated.output = None
    /\ evaluated' = [evaluated EXCEPT !.output =
                        Some(SystemMessage(evaluated.input.contextText,
                                           evaluated.input.document))]
    /\ UNCHANGED <<documents, embeddings, chatMessages, now, ingest, docsRead, chat,
                   messagesRead, sanitized>>

InitSystemMessage ==
    /\ documents = <<>>
    /\ embeddings = <<>>
    /\ chatMessages = <<>>
    /\ now = 0
    /\ ingest = [i \in IngestIds |-> IngestInit]
    /\ docsRead = None
    /\ chat = [t \in TurnIds |-> ChatInit]
    /\ messagesRead = None
    /\ sanitized = NoCall
    /\ evaluated \in
          {[fn |-> "systemMessage",
            input |-> [contextText |-> text,
                       document |-> [extracted |-> extracted, schema |-> FullSchema]],
            output |-> None, again |-> None] :
              text \in ContextTexts, extracted \in {FullExtracted, EmptyObj}}

NextSystemMessage == SystemMessageCall

SpecSystemMessage == InitSystemMessage /\ [][NextSystemMessage]_vars

\* ------------------------------------------------------------------ claims
Range(s) == {s[k] : k \in DOMAIN s}
Last(s) == s[Len(s)]
Done(i) == ingest[i].pc = "done"
Response(i) == Get(ingest[i].response)
Threw(i, stages) ==
    /\ Len(ingest[i].log) >= 2
    /\ Last(ingest[i].log).ev = "throw"
    /\ ingest[i].log[Len(ingest[i].log) - 1].ev \in stages

\* the log of rows written agrees with the tables: every row of Document and
\* DocumentEmbedding was written by exactly one request
WritesMatchStore ==
    /\ \A d \in Range(documents) :
          Cardinality({i \in IngestIds : <<"Document", d.id>> \in Range(ingest[i].wrote)}) = 1
    /\ \A e \in Range(embeddings) :
          Cardinality({i \in IngestIds :
                          <<"DocumentEmbedding", e.id>> \in Range(ingest[i].wrote)}) = 1
    /\ \A i \in IngestIds : \A w \in Range(ingest[i].wrote) :
          \/ w[1] = "Document" /\ DocumentsWithId(w[2]) # <<>>
          \/ w[1] = "DocumentEmbedding" /\ \E e \in Range(embeddings) : e.id = w[2]

\* the answers schema discovery must reject: empty, or not JSON
EmptyOrNonJSON == {None, Some(""), Some("not json")}

FailedBeforePersist(i) ==
    /\ Done(i)
    /\ \/ Threw(i, {"extract", "discover"})
       \/ IsSome(ingest[i].content) /\ Get(ingest[i].content) \in EmptyOrNonJSON

\* C5: an ingestion in which extraction or schema discovery fails (a thrown
\* error, an empty or a non-JSON completion answer) has written no Document row
\* and no Embedding row, and its response is an error with a message and no
\* document id.
C5_NoRowOnEarlyFailure ==
    /\ WritesMatchStore
    /\ \A i \in IngestIds :
          FailedBeforePersist(i) =>
             /\ ingest[i].wrote = <<>>
             /\ Response(i).status = 500
             /\ IsSome(Response(i).error)
             /\ Get(Response(i).error) # ""
             /\ Response(i).documentId = None

C5_Witness ==
    \E i, j \in IngestIds :
       /\ Done(i) /\ ingest[i].content = Some(Some("not json"))
       /\ Done(j) /\ Threw(j, {"extract"})

WroteDocument(i) == \E w \in Range(ingest[i].wrote) : w[1] = "Document"

\* C6: an ingestion whose embedding step fails (the embedding call or the
\* insert of the Embedding row) has written its Document row and answers with
\* a success that carries the document id.
C6_EmbeddingFailureIsDegradedSuccess ==
    \A i \in IngestIds :
       Done(i) /\ Threw(i, {"embed", "store"}) =>
          /\ WroteDocument(i)
          /\ Response(i).status = 200
          /\ IsSome(Response(i).documentId)

StageRank(ev) ==
    CASE ev = "extract" -> 1
      [] ev = "sanitize" -> 2
      [] ev = "redact" -> 3
      [] ev = "discover" -> 4
      [] ev = "embed" -> 5
      [] ev = "store" -> 5
      [] ev = "persist" -> 6
      [] OTHER -> 7

\* C7: the stages of an ingestion run in the order extract, sanitize, redact,
\* schema discovery, embed, persist, and the Document row is the last row an
\* ingestion writes.
C7_EmbedBeforePersist ==
    \A i \in IngestIds :
       /\ \A a, b \in DOMAIN ingest[i].log :
             a < b => StageRank(ingest[i].log[a].ev) <= StageRank(ingest[i].log[b].ev)
       /\ Done(i) /\ ingest[i].wrote # <<>> => Last(ingest[i].wrote)[1] = "Document"

Succeeded(i) == Done(i) /\ Response(i).status = 200
DocumentOf(i) == DocumentsWithId(Get(Response(i).documentId))[1]

EmbedsOnce(i) ==
    /\ Count(ingest[i].log, "embed") = 1
    /\ Len(EmbeddingsOf(DocumentOf(i).id)) = 1

\* an embedding call, once made, was made on the text of the Document row
EmbedsFullText ==
    \A i \in IngestIds :
       ingest[i].pc = "store" =>
          Last(ingest[i].log) = Call("embed", DocumentsWithId(Get(ingest[i].doc).id)[1].text)

EmbedsNever(i) ==
    /\ Count(ingest[i].log, "embed") = 0
    /\ EmbeddingsOf(DocumentOf(i).id) = <<>>

\* C8 as stated: a successful ingestion whose redacted text has fewer than 20
\* characters makes no embedding call and leaves no Embedding row; one whose
\* redacted text has 20 or more characters makes exactly one embedding call, on
\* the full redacted text, and leaves exactly one Embedding row.
C8_LengthThreshold ==
    /\ EmbedsFullText
    /\ \A i \in IngestIds :
       Succeeded(i) =>
          IF Len(DocumentOf(i).text) < MinEmbedLen THEN EmbedsNever(i) ELSE EmbedsOnce(i)

\* C8 amended: the threshold of 20 characters applies to the redacted text
\* with its leading and trailing white space removed; the embedding call is
\* still made on the full redacted text.
C8_TrimmedLengthThreshold ==
    /\ EmbedsFullText
    /\ \A i \in IngestIds :
       Succeeded(i) =>
          IF Len(Trim(DocumentOf(i).text)) < MinEmbedLen THEN EmbedsNever(i) ELSE EmbedsOnce(i)

\* the store from which the chat turns are explored is one of these states
C8_Witness ==
    /\ documents = SeedDocuments
    /\ embeddings = SeedEmbeddings
    /\ now = SeedNow
    /\ \E i, j \in IngestIds :
       /\ Succeeded(i)
       /\ Len(DocumentOf(i).text) >= MinEmbedLen
       /\ Len(Trim(DocumentOf(i).text)) < MinEmbedLen
       /\ Succeeded(j)
       /\ Len(Trim(DocumentOf(j).text)) >= MinEmbedLen
       /\ Len(EmbeddingsOf(DocumentOf(j).id)) = 1

\* C9: every Embedding row references a Document of the store whose text has
\* at least 20 characters, and a Document whose text has fewer than 20
\* characters has no Embedding row.
C9_EmbeddingsOfNonTrivialText ==
    /\ \A e \in Range(embeddings) :
          /\ DocumentsWithId(e.documentId) # <<>>
          /\ Len(DocumentsWithId(e.documentId)[1].text) >= MinEmbedLen
    /\ \A d \in Range(documents) :
          Len(d.text) < MinEmbedLen => EmbeddingsOf(d.id) = <<>>

C9_Witness ==
    /\ embeddings # <<>>
    /\ \E d \in Range(documents) : Len(d.text) < MinEmbedLen
    /\ \A i \in IngestIds : Done(i)

\* C10: every Document row has status REVIEW_REQUIRED, in the store and in
\* every response of a read.
C10_StatusReviewRequired ==
    /\ \A d \in Range(documents) : d.status = "REVIEW_REQUIRED"
    /\ IsSome(docsRead) =>
          \A d \in Range(Get(docsRead).docs) : d.status = "REVIEW_REQUIRED"

C10_Witness ==
    /\ \E i \in IngestIds : ingest[i].pc = "embed"
    /\ IsSome(docsRead)
    /\ Get(docsRead).docs # <<>>

ChatDone(t) == chat[t].pc = "done"
ChatResponse(t) == Get(chat[t].response)
MessagesWithId(id) == SelectSeq(chatMessages, LAMBDA m : m.id = id)
WroteRole(t, role) == SelectSeq(chat[t].wrote, LAMBDA w : w[1] = role)
Positions(log, names) == {k \in DOMAIN log : log[k].ev \in names}

\* the log of rows written agrees with table ChatMessage: every row was written
\* by exactly one turn, for its document and with the role logged, and every
\* row logged is in the table
ChatWritesMatchStore ==
    /\ \A m \in Range(chatMessages) :
          Cardinality({t \in TurnIds : <<m.role, m.id>> \in Range(chat[t].wrote)}) = 1
    /\ \A t \in TurnIds : \A w \in Range(chat[t].wrote) :
          /\ Len(MessagesWithId(w[2])) = 1
          /\ MessagesWithId(w[2])[1].role = w[1]

\* C1: in every chat turn the user message is in the store before the turn
\* calls the embedding service or the completion service, and the assistant
\* message is written only after the last completion call of the turn has
\* returned.
C1_PersistOrder ==
    /\ ChatWritesMatchStore
    /\ \A t \in TurnIds :
          LET log == chat[t].log
          IN  /\ \A k \in Positions(log, {"embed", "complete"}) :
                    /\ \E j \in Positions(log, {"saveUser"}) : j < k
                    /\ Len(WroteRole(t, "user")) = 1
              /\ \A k \in Positions(log, {"saveAssistant"}) :
                    /\ \A j \in Positions(log, {"complete", "answer"}) : j < k
                    /\ Count(log, "complete") >= 1
                    /\ Count(log, "answer") = Count(log, "complete")

C1_Witness ==
    \E t \in TurnIds :
       /\ ChatDone(t)
       /\ ChatResponse(t).status = 200
       /\ Count(chat[t].log, "complete") = 2
       /\ Len(WroteRole(t, "user")) = 1
       /\ Len(WroteRole(t, "assistant")) = 1

FailedAt(t, names) ==
    /\ ChatDone(t)
    /\ Len(chat[t].log) >= 2
    /\ Last(chat[t].log).ev = "throw"
    /\ chat[t].log[Len(chat[t].log) - 1].ev \in names

\* C2: a turn that fails after its user message was written (in the query
\* embedding, the retrieval, a completion call, the parsing of tool-call
\* arguments or the write of the assistant message) answers with an error and
\* a message, its user message is in the store, and it has stored no assistant
\* message.
C2_FailureKeepsUserMessage ==
    /\ ChatWritesMatchStore
    /\ \A t \in TurnIds :
          FailedAt(t, {"embed", "retrieve", "complete", "tools", "saveAssistant"}) =>
             /\ ChatResponse(t).status = 500
             /\ IsSome(ChatResponse(t).error)
             /\ Get(ChatResponse(t).error) # ""
             /\ ChatResponse(t).message = None
             /\ Len(WroteRole(t, "user")) = 1
             /\ WroteRole(t, "assistant") = <<>>

C2_Witness ==
    \E t, u \in TurnIds :
       /\ FailedAt(t, {"saveAssistant"})
       /\ FailedAt(u, {"tools"})
       /\ Len(chatMessages) = 2

\* the tool calls a completion message asks for
Asked(message) == IF IsSome(message.tool_calls) THEN Get(message.tool_calls) ELSE <<>>
Answers(t) == SelectSeq(chat[t].log, LAMBDA x : x.ev = "answer")
AssistantRow(t) == MessagesWithId(WroteRole(t, "assistant")[1][2])[1]

\* C3: a turn that succeeds has stored exactly one assistant message; when the
\* first completion answer asks for no tool call, toolCalls is null and the
\* turn made one completion call; when it asks for N >= 1 tool calls, toolCalls
\* records these N calls and the turn made exactly two completion calls.
C3_OneAssistantMessage ==
    /\ ChatWritesMatchStore
    /\ \A t \in TurnIds :
          ChatDone(t) /\ ChatResponse(t).status = 200 =>
             /\ Len(WroteRole(t, "assistant")) = 1
             /\ AssistantRow(t).role = "assistant"
             /\ AssistantRow(t).documentId = MessagesWithId(WroteRole(t, "user")[1][2])[1].documentId
             /\ LET first == Answers(t)[1].arg
                IN  IF Asked(first) = <<>>
                    THEN /\ AssistantRow(t).toolCalls = None
                         /\ Count(chat[t].log, "complete") = 1
                    ELSE /\ AssistantRow(t).toolCalls = Some(Asked(first))
                         /\ Count(chat[t].log, "complete") = 2

C3_Witness ==
    \E t, u \in TurnIds :
       /\ ChatDone(t) /\ ChatResponse(t).status = 200
       /\ Len(Asked(Answers(t)[1].arg)) = 2
       /\ ChatDone(u) /\ ChatResponse(u).status = 200
       /\ Answers(u)[1].arg.tool_calls = Some(<<>>)

\* C4: a turn makes at most two completion calls and runs the tools at most
\* once, before the second call; the answer to the second call is the final
\* message even when it asks for tool calls.
C4_AtMostTwoCompletions ==
    \A t \in TurnIds :
       LET log == chat[t].log
       IN  /\ Count(log, "complete") <= 2
           /\ Count(log, "tools") <= 1
           /\ \A k \in Positions(log, {"tools"}) :
                 Cardinality({j \in Positions(log, {"complete"}) : j < k}) = 1
           /\ ChatDone(t) /\ ChatResponse(t).status = 200 /\ Len(Answers(t)) = 2 =>
                 ChatResponse(t).message = Some(Answers(t)[2].arg)

C4_Witness ==
    \E t \in TurnIds :
       /\ ChatDone(t)
       /\ ChatResponse(t).status = 200
       /\ Len(Answers(t)) = 2
       /\ Asked(Answers(t)[2].arg) # <<>>

FileNamed(name) == CHOOSE f \in Files : f.name = name
\* steps 1 to 3 on a file
Redacted(file) == redactPII(sanitizeForPostgresText(extractTextFromFile(file)))
HasNul(text) == \E k \in DOMAIN text : text[k] = 0
\* an SSN-shaped or a 16-digit substring, as the patterns of redactPII find them
HasPII(text) == \E k \in DOMAIN text : MatchSSN(text, k) \/ MatchCard(text, k)

\* C11: in every ingestion the text given to schema discovery (cut to its
\* budget of 40,000 characters), the text given to the embedding service and
\* the text of the Document row are redact(sanitize(extracted text)); no stored
\* text contains a null character, and no stored text and no text sent to a
\* service contains a substring the redaction patterns match.
C11_OnlyRedactedText ==
    /\ \A d \in Range(documents) :
          /\ d.text = Redacted(FileNamed(d.filename))
          /\ ~HasNul(d.text)
          /\ ~HasPII(d.text)
    /\ \A i \in IngestIds :
          /\ ingest[i].pc = "persist" =>
                /\ Last(ingest[i].log) =
                      Call("discover", DiscoveryInput(Redacted(Get(ingest[i].file))))
                /\ ~HasPII(Last(ingest[i].log).arg)
          /\ ingest[i].pc = "store" =>
                /\ Last(ingest[i].log) = Call("embed", Redacted(Get(ingest[i].file)))
                /\ ~HasPII(Last(ingest[i].log).arg)
                /\ ~HasNul(Last(ingest[i].log).arg)

C11_Witness ==
    /\ \E d \in Range(documents) : d.filename = "d.pdf" /\ HasNul(FileNamed("d.pdf").content)
    /\ \E i \in IngestIds :
          /\ ingest[i].pc = "store"
          /\ Get(ingest[i].file).name = "a.txt"
          /\ HasPII(Get(ingest[i].file).content)

ChatSucceeded(t) == ChatDone(t) /\ ChatResponse(t).status = 200
\* the rows of a turn that has succeeded
UserRow(t) == MessagesWithId(WroteRole(t, "user")[1][2])[1]
Ids(rows) == [k \in DOMAIN rows |-> rows[k].id]
Roles(rows) == [k \in DOMAIN rows |-> rows[k].role]
TranscriptRead == IsSome(messagesRead) /\ Get(messagesRead).status = 200

\* C12: when two chat turns on the same document have succeeded one after the
\* other, each has written one user message and then one assistant message,
\* the messages of the document are user1, assistant1, user2, assistant2, and
\* a transcript read of the four messages returns them in that order.
C12_SequentialTurnsInCallOrder ==
    \A t, u \in TurnIds :
       /\ t # u
       /\ ChatSucceeded(t) /\ ChatSucceeded(u)
       /\ UserRow(t).documentId = UserRow(u).documentId
       /\ UserRow(t).id < UserRow(u).id
       => LET rows == MessagesOf(UserRow(t).documentId)
          IN  /\ Ids(rows) = <<UserRow(t).id, AssistantRow(t).id, UserRow(u).id,
                               AssistantRow(u).id>>
              /\ Roles(rows) = <<"user", "assistant", "user", "assistant">>
              /\ TranscriptRead /\ Get(messagesRead).documentId = Some(UserRow(t).documentId)
                    => Ids(Get(messagesRead).messages) = Ids(rows)

\* C15: a transcript read for a document id that is not in the store is
\* answered with status 404.
C15_UnknownDocumentNotFound ==
    /\ IsSome(messagesRead)
    /\ IsSome(Get(messagesRead).documentId)
    /\ DocumentsWithId(Get(Get(messagesRead).documentId)) = <<>>
    => Get(messagesRead).status \in {404, 500}

\* what a finished turn had parsed from its body
Request(t) == Get(chat[t].request)
Parsed(t) == ChatDone(t) /\ IsSome(chat[t].request)
MalformedBody(t) == ~IsSome(Request(t).documentId) \/ Request(t).messages.kind # "array"
History(t) == Request(t).messages.items
BadHistory(t) == History(t) = <<>> \/ Last(History(t)).role # "user"
UnknownDocument(t) ==
    /\ IsSome(Request(t).documentId)
    /\ DocumentsWithId(Get(Request(t).documentId)) = <<>>
\* a turn that has failed validation
Invalid(t) == Parsed(t) /\ (MalformedBody(t) \/ BadHistory(t))
ChatThrew(t) == chat[t].log # <<>> /\ Last(chat[t].log).ev = "throw"
\* no row written, no call of the embedding or the completion service
ChatDidNothing(t) ==
    /\ chat[t].wrote = <<>>
    /\ Positions(chat[t].log, {"saveUser", "embed", "retrieve", "complete", "tools",
                               "saveAssistant"}) = {}
NoFile(i) == Done(i) /\ ingest[i].request = Some([hasFile |-> FALSE])
IngestDidNothing(i) == ingest[i].wrote = <<>> /\ ingest[i].log = <<>>

\* C13 as stated: an ingestion request without a file, and a chat turn whose
\* documentId is missing, whose history is missing, not a list or empty, or
\* whose last message is not from the user, is answered with status 400, writes
\* no row and calls no service.
C13_ValidationFailureIs400 ==
    /\ \A i \in IngestIds :
          NoFile(i) => Response(i).status = 400 /\ IngestDidNothing(i)
    /\ \A t \in TurnIds :
          Invalid(t) /\ ~ChatThrew(t) => ChatResponse(t).status = 400 /\ ChatDidNothing(t)

\* C13 amended: the check of the last message comes after the lookup of the
\* document, so a turn with an empty history or a last message not from the
\* user is answered with status 404 when its document id is not in the store,
\* and with status 400 when it is; in both cases, and for a body without
\* documentId or without a list of messages (status 400), and for an ingestion
\* without a file (status 400), no row is written and no service is called.
C13_ValidationFailureIsClientError ==
    /\ \A i \in IngestIds :
          NoFile(i) => Response(i).status = 400 /\ IngestDidNothing(i)
    /\ \A t \in TurnIds :
          Invalid(t) =>
             /\ ChatDidNothing(t)
             /\ ~ChatThrew(t) =>
                   ChatResponse(t).status =
                      IF MalformedBody(t) THEN 400
                      ELSE IF UnknownDocument(t) THEN 404 ELSE 400

\* a turn stopped by its last message, another stopped at the lookup before
\* its history was looked at
C13_Witness ==
    \E t, u \in TurnIds :
       /\ Parsed(t) /\ ~MalformedBody(t) /\ BadHistory(t) /\ History(t) # <<>>
       /\ ~UnknownDocument(t) /\ ~ChatThrew(t)
       /\ Parsed(u) /\ ~MalformedBody(u) /\ BadHistory(u) /\ UnknownDocument(u)
       /\ ~ChatThrew(u)

\* an ingestion without a file, answered
IngestWithoutFile == \E i \in IngestIds : NoFile(i)

\* C14 as stated: a chat turn for a document id that is not in the store is
\* answered with status 404, writes no ChatMessage and calls neither the
\* embedding nor the completion service.
C14_UnknownDocumentIs404 ==
    \A t \in TurnIds :
       Parsed(t) /\ UnknownDocument(t) /\ ~ChatThrew(t) =>
          ChatResponse(t).status = 404 /\ ChatDidNothing(t)

\* C14 amended: a chat turn whose body has a list of messages and a document
\* id that is not in the store is answered with status 404, whatever the list
\* holds; without a list of messages the answer is status 400; in both cases no
\* ChatMessage is written and no service is called.
C14_UnknownDocumentIs404OfListedHistory ==
    \A t \in TurnIds :
       Parsed(t) /\ UnknownDocument(t) =>
          /\ ChatDidNothing(t)
          /\ ~ChatThrew(t) =>
                ChatResponse(t).status = IF MalformedBody(t) THEN 400 ELSE 404

C14_Witness ==
    \E t, u \in TurnIds :
       /\ Parsed(t) /\ UnknownDocument(t) /\ ~MalformedBody(t) /\ ~BadHistory(t)
       /\ ChatResponse(t).status = 404
       /\ Parsed(u) /\ UnknownDocument(u) /\ ~MalformedBody(u) /\ History(u) = <<>>
       /\ ChatResponse(u).status = 404

\* the turns of which both messages are stored for one document, in the order
\* of the table
RolesOfTurns(order) ==
    /\ Len(chatMessages) = Len(order)
    /\ \A k \in DOMAIN order :
          /\ chatMessages[k].role = order[k][2]
          /\ <<order[k][2], chatMessages[k].id>> \in Range(chat[order[k][1]].wrote)
          /\ chatMessages[k].documentId = chatMessages[1].documentId

\* C16: with two turns under way at once, also on one document, no turn is
\* held up by the other (a turn that has started can always take its next
\* step); a turn that succeeds has added exactly one user message, with the
\* content of its last history message, and after it exactly one assistant
\* message, with the content of its response, both for its document; and every
\* message written is in the table, under its own id, unchanged.
C16_ConcurrentTurnsKeepTheirMessages ==
    /\ ChatWritesMatchStore
    /\ Ids(chatMessages) = [k \in DOMAIN chatMessages |-> k]
    /\ Len(chatMessages) = SeqSum([t \in TurnIds |-> Len(chat[t].wrote)])
    /\ \A t \in TurnIds : InFlight(chat[t].pc) => ENABLED ChatStep(t)
    /\ \A t \in TurnIds :
          /\ chat[t].pc = "embedQuery" =>
                /\ Get(chat[t].savedUserMessage) \in Range(chatMessages)
                /\ Get(chat[t].savedUserMessage).content = LastMessage(t).content
          /\ ChatSucceeded(t) =>
                /\ Len(WroteRole(t, "user")) = 1
                /\ Len(WroteRole(t, "assistant")) = 1
                /\ UserRow(t).role = "user"
                /\ UserRow(t).documentId = Get(Request(t).documentId)
                /\ UserRow(t).content = Last(History(t)).content
                /\ AssistantRow(t).role = "assistant"
                /\ AssistantRow(t).documentId = Get(Request(t).documentId)
                /\ AssistantRow(t).content = ContentOrEmpty(Get(ChatResponse(t).message))
                /\ UserRow(t).id < AssistantRow(t).id

\* user1, user2, assistant1, assistant2
C16_Witness ==
    /\ \A t \in TurnIds : ChatSucceeded(t)
    /\ \E t, u \in TurnIds :
          /\ t # u
          /\ RolesOfTurns(<<<<t, "user">>, <<u, "user">>, <<t, "assistant">>,
                            <<u, "assistant">>>>)

\* user1, user2, assistant2, assistant1
InterleavedInside ==
    /\ \A t \in TurnIds : ChatSucceeded(t)
    /\ \E t, u \in TurnIds :
          /\ t # u
          /\ RolesOfTurns(<<<<t, "user">>, <<u, "user">>, <<u, "assistant">>,
                            <<t, "assistant">>>>)

\* C17: the ChatMessage rows of one document are strictly ordered by
\* createdAt: a row written later has a greater createdAt than every row
\* written before it for that document, and no two have the same.
C17_StrictlyOrderedByCreatedAt ==
    \A m, n \in Range(chatMessages) :
       m.documentId = n.documentId /\ m.id < n.id => m.createdAt < n.createdAt

IsPrefix(a, b) == Len(a) <= Len(b) /\ SubSeq(b, 1, Len(a)) = a
Added(a, b) == Len(b) - Len(a)
WroteTable(i, table) == SelectSeq(ingest[i].wrote, LAMBDA w : w[1] = table)

\* what a step may do to the tables
StepKeepsRows ==
    /\ IsPrefix(documents, documents')
    /\ IsPrefix(embeddings, embeddings')
    /\ IsPrefix(chatMessages, chatMessages')
    /\ Added(documents, documents') + Added(embeddings, embeddings')
          + Added(chatMessages, chatMessages') <= 1
    /\ ingest' # ingest =>
          /\ chatMessages' = chatMessages
          /\ \E i \in IngestIds :
                /\ \A j \in IngestIds : j # i => ingest'[j] = ingest[j]
                /\ Len(WroteTable(i, "Document"))' =
                      Len(WroteTable(i, "Document")) + Added(documents, documents')
                /\ Len(WroteTable(i, "DocumentEmbedding"))' =
                      Len(WroteTable(i, "DocumentEmbedding")) + Added(embeddings, embeddings')
    /\ chat' # chat => documents' = documents /\ embeddings' = embeddings
    /\ docsRead' # docsRead \/ messagesRead' # messagesRead =>
          /\ documents' = documents
          /\ embeddings' = embeddings
          /\ chatMessages' = chatMessages

\* C18: every step leaves the rows there are as they are: an ingestion adds at
\* most one Document row and at most one Embedding row and no ChatMessage, a
\* step of a chat turn adds at most one ChatMessage and changes neither
\* Document nor Embedding rows, the document read and the transcript read add
\* nothing, and no step changes or removes a row.
C18_AppendOnly ==
    /\ [][StepKeepsRows]_vars
    /\ [](\A i \in IngestIds :
             /\ Len(WroteTable(i, "Document")) <= 1
             /\ Len(WroteTable(i, "DocumentEmbedding")) <= 1)

C18_Witness ==
    /\ documents = SeedDocuments
    /\ embeddings = SeedEmbeddings
    /\ \E t, u \in TurnIds : ChatSucceeded(t) /\ chat[u].pc = "embedQuery"
    /\ Len(chatMessages) > MaxTurns

\* two ingestions answered, one with its embedding, and the documents read
IngestedAndRead ==
    /\ \A i \in IngestIds : Succeeded(i)
    /\ Len(documents) = MaxIngests
    /\ embeddings # <<>>
    /\ IsSome(docsRead)

\* the control characters of Unicode (category Cc), U+0000 to U+001F and
\* U+007F to U+009F
IsControl(c) == c <= 31 \/ (c >= 127 /\ c <= 159)
\* tab, line feed, carriage return
IsKeptControl(c) == c \in {9, 10, 13}
Keeps(c) == ~IsControl(c) \/ IsKeptControl(c)

\* C19: what sanitizeForPostgresText returns has no null character and no
\* control character other than tab, line feed and carriage return, and is
\* the input without the characters removed, in the order of the input.
C19_SanitizeStripsControls ==
    IsSome(sanitized.output) =>
       /\ \A c \in Range(Get(sanitized.output)) : c # 0 /\ Keeps(c)
       /\ Get(sanitized.output) = SelectSeq(sanitized.input, Keeps)

\* C20: sanitizeForPostgresText applied to what it has returned returns it
\* unchanged.
C20_SanitizeIdempotent ==
    IsSome(sanitized.again) => sanitized.again = sanitized.output

C20_Witness ==
    /\ IsSome(sanitized.again)
    /\ Len(sanitized.input) = MaxInputLen
    /\ Len(Get(sanitized.output)) = 1
    /\ \E j, k \in DOMAIN sanitized.input :
          j # k /\ IsNul(sanitized.input[j]) /\ IsNul(sanitized.input[k])

\* ---- C21
\* the shapes of the two patterns, whatever stands before and after them
ShapeSSN(text, i) ==
    /\ i + SsnLen - 1 <= Len(text)
    /\ \A k \in 0..(SsnLen - 1) :
          IF k = 3 \/ k = 6 THEN text[i + k] = Dash ELSE IsDigit(text[i + k])
ShapeCard(text, i) ==
    /\ i + CardLen - 1 <= Len(text)
    /\ \A k \in 0..(CardLen - 1) : IsDigit(text[i + k])
Redaction == evaluated.fn = "redactPII" /\ IsSome(evaluated.output)

\* C21: for every input, what redactPII returns holds no ddd-dd-dddd
\* occurrence and no run of 16 digits, whatever surrounds them in the input
C21_NoPatternLeft ==
    Redaction =>
        \A i \in DOMAIN Get(evaluated.output) :
            ~ShapeSSN(Get(evaluated.output), i) /\ ~ShapeCard(Get(evaluated.output), i)

\* an occurrence that follows a letter is returned as it came
C21_LetterBeforeSSN ==
    /\ Redaction
    /\ evaluated.input = <<120>> \o PieceSSN
    /\ Get(evaluated.output) = evaluated.input

\* ---- C22
SSNMatches(text) == {i \in DOMAIN text : MatchSSN(text, i)}
CardMatches(text) == {i \in DOMAIN text : MatchCard(text, i)}

\* C22: redactPII of what redactPII returned is what it returned, and what it
\* returned holds no match of either pattern
C22_RedactIdempotent ==
    /\ Redaction => SSNMatches(Get(evaluated.output)) = {}
                    /\ CardMatches(Get(evaluated.output)) = {}
    /\ evaluated.fn = "redactPII" /\ IsSome(evaluated.again)
          => evaluated.again = evaluated.output

\* a second call on the redaction of a text with two SSN matches, or with a
\* match of each pattern
C22_Witness ==
    /\ evaluated.fn = "redactPII"
    /\ IsSome(evaluated.again)
    /\ Cardinality(SSNMatches(evaluated.input)) = 2
C22_WitnessBoth ==
    /\ evaluated.fn = "redactPII"
    /\ IsSome(evaluated.again)
    /\ SSNMatches(evaluated.input) # {}
    /\ CardMatches(evaluated.input) # {}

\* ---- C23
Retrieval == evaluated.fn = "retrieve" /\ IsSome(evaluated.output)
QueryDistance(e) == L2Distance(e.vector, evaluated.input.vector)
OwnEmbeddings == {k \in DOMAIN embeddings : embeddings[k].documentId = evaluated.input.documentId}

\* C23: the retrieval returns at most 3 records, each built from an Embedding
\* row of the requested document (a row is used once), in ascending distance
\* to the query vector, the rows left out being no nearer than the last one
\* returned; no embedding of another document is in the result
C23_RetrievalScopedOrderedLimited ==
    Retrieval =>
        LET out == Get(evaluated.output)
            n == Len(out)
        IN  /\ n <= RetrieveLimit
            /\ n = RetrieveLimit \/ n = Cardinality(OwnEmbeddings)
            /\ \A k \in 1..n : out[k].id = evaluated.input.documentId
            /\ \A a, b \in 1..n : a < b => out[a].distance <= out[b].distance
            /\ \E f \in [1..n -> OwnEmbeddings] :
                  /\ \A a, b \in 1..n : a # b => f[a] # f[b]
                  /\ \A k \in 1..n : out[k].distance = QueryDistance(embeddings[f[k]])
                  /\ \A e \in OwnEmbeddings \ {f[k] : k \in 1..n} :
                        QueryDistance(embeddings[e]) >= out[n].distance

\* the document has more embeddings than the limit, at three distances
C23_Witness ==
    /\ Retrieval
    /\ Cardinality(OwnEmbeddings) > RetrieveLimit
    /\ Len(Get(evaluated.output)) = RetrieveLimit
    /\ Cardinality({QueryDistance(embeddings[e]) : e \in OwnEmbeddings}) = 3
\* another document has an embedding nearer to the query than every record returned
C23_WitnessOtherDocument ==
    /\ Retrieval
    /\ Len(Get(evaluated.output)) = RetrieveLimit
    /\ \E k \in DOMAIN embeddings :
          /\ k \notin OwnEmbeddings
          /\ QueryDistance(embeddings[k]) < Get(evaluated.output)[1].distance

\* ---- C24
NoEmbeddings(t) == IsSome(chat[t].documentId) /\ EmbeddingsOf(Get(chat[t].documentId)) = <<>>
StoredDocument(t) == DocumentsWithId(Get(chat[t].documentId))[1]

\* C24: for a document without Embedding rows the retrieval of a turn has one
\* result, the empty sequence, and the turn goes on to its completion call
\* with a system message made from the whole stored text of the document
C24_NoEmbeddingsFullText ==
    \A t \in TurnIds :
        /\ chat[t].pc = "retrieve" /\ NoEmbeddings(t)
              => RelevantDocs(Get(chat[t].documentId), Get(chat[t].queryEmbedding)) = {<<>>}
        /\ chat[t].pc = "complete" /\ NoEmbeddings(t)
              => /\ Last(chat[t].log) = [ev |-> "retrieve", arg |-> <<>>]
                 /\ chat[t].systemMessage =
                       Some(SystemMessage(StoredDocument(t).text, StoredDocument(t)))
                 /\ Get(chat[t].systemMessage).content.excerpt = StoredDocument(t).text

\* a turn on the seeded document without embedding is at its completion call
C24_Witness ==
    \E t \in TurnIds :
        /\ chat[t].pc = "complete"
        /\ NoEmbeddings(t)
        /\ StoredDocument(t).text # <<>>
        /\ Last(chat[t].log).ev = "retrieve"

\* ---- C25
IsList(value) == value.t = "arr"
IsObject(value) == value.t = "obj"
\* the structure of the prompt: every key present, the list fields as arrays
HasTargetShape(extracted) ==
    /\ IsObject(extracted)
    /\ {K_doc_type, K_person, K_summary, K_skills, K_experience, K_education,
         K_raw_highlights} \subseteq DOMAIN extracted.v
    /\ IsObject(extracted.v[K_person])
    /\ {K_name, K_email, K_phone, K_links} \subseteq DOMAIN extracted.v[K_person].v
    /\ IsList(extracted.v[K_person].v[K_links])
    /\ \A key \in {K_skills, K_experience, K_education, K_raw_highlights} :
          IsList(extracted.v[key])

\* C25: the extracted object of every Document written after an accepted
\* answer of schema discovery has every key of the target structure, the list
\* fields as sequences
C25_ExtractedHasTargetShape ==
    \A k \in DOMAIN documents : HasTargetShape(documents[k].extracted)

\* the answer "{}" is accepted and stored as an extracted object without keys,
\* next to a document whose answer had the structure
C25_EmptyAnswerStored ==
    /\ \E k \in DOMAIN documents : documents[k].extracted = EmptyObj
    /\ \E k \in DOMAIN documents : HasTargetShape(documents[k].extracted)
    /\ \E i \in IngestIds : Done(i) /\ Response(i).status = 200 /\ ingest[i].content = Some(Some("{}"))

\* ---- C26
\* C26: an ingestion attempt that has reached its store call ends in a
\* response, whether the store answers or not
C26_EveryAttemptEnds ==
    \A i \in IngestIds : (ingest[i].pc = "persist") ~> (ingest[i].pc = "done")

\* an attempt waits for the answer of the store to document.create
C26_WaitsForStore == \E i \in IngestIds : ingest[i].pc = "persist"

\* ---- C27
ReadDocument == Get(Get(messagesRead).documentId)
RowsOfReadDocument == {k \in DOMAIN chatMessages : chatMessages[k].documentId = ReadDocument}
ReadStep == messagesRead = None /\ messagesRead' # None
TranscriptIsOfDocument ==
    TranscriptRead =>
        LET rows == Get(messagesRead).messages
        IN  /\ Len(rows) = Cardinality(RowsOfReadDocument)
            /\ \A k \in RowsOfReadDocument :
                  \E j \in DOMAIN rows :
                     /\ rows[j].id = chatMessages[k].id
                     /\ rows[j].role = chatMessages[k].role
                     /\ rows[j].content = chatMessages[k].content
                     /\ rows[j].toolCalls = chatMessages[k].toolCalls
                     /\ rows[j].createdAt = chatMessages[k].createdAt
            /\ \A a, b \in DOMAIN rows : a < b => rows[a].createdAt <= rows[b].createdAt

\* C27: a transcript read returns all the ChatMessage rows of its document
\* and no other row, in ascending createdAt order, and its step changes no
\* table of the store
C27_TranscriptReadAllAndOnly ==
    /\ [](TranscriptIsOfDocument)
    /\ [][ReadStep => UNCHANGED <<documents, embeddings, chatMessages>>]_vars

\* a read of the two messages of a document while the store holds messages of
\* another document
C27_Witness ==
    /\ TranscriptRead
    /\ Len(Get(messagesRead).messages) = 2
    /\ \E k \in DOMAIN chatMessages : chatMessages[k].documentId # ReadDocument

\* ---- C28
FirstAnswer(t) == Answers(t)[1].arg
ToolCallIds(calls) == [k \in DOMAIN calls |-> calls[k].id]
ResultIds(results) == [k \in DOMAIN results |-> results[k].tool_call_id]

\* C28: when the first answer asks for tool calls, the tools give one result
\* per call asked, in the order asked and with the call's id, whatever the
\* name and the type of the call, and the second completion call is made with
\* the system message, the history, the assistant message of the first
\* answer and these results
C28_EveryToolCallAnswered ==
    \A t \in TurnIds :
        /\ chat[t].pc = "complete2"
              => ResultIds(chat[t].toolResults) = ToolCallIds(Asked(FirstAnswer(t)))
        /\ chat[t].pc = "saveAssistant" /\ Count(chat[t].log, "complete") = 2
              => LET call == chat[t].log[Len(chat[t].log) - 1]
                     n == Len(chat[t].messages)
                 IN  /\ call.ev = "complete"
                     /\ Len(call.arg) = n + 2 + Len(Asked(FirstAnswer(t)))
                     /\ call.arg[1] = Get(chat[t].systemMessage)
                     /\ SubSeq(call.arg, 2, n + 1) = chat[t].messages
                     /\ call.arg[n + 2] = FirstAnswer(t)
                     /\ ResultIds(SubSeq(call.arg, n + 3, Len(call.arg)))
                           = ToolCallIds(Asked(FirstAnswer(t)))

\* the second call is about to be made for an answer that asked for a tool
\* the route does not have and for a call that is not a function call, and no
\* tool result has been made
C28_UnknownToolUnanswered ==
    \E t \in TurnIds :
        /\ chat[t].pc = "complete2"
        /\ Asked(FirstAnswer(t)) = <<TC_unknown, TC_custom>>
        /\ chat[t].toolResults = <<>>
\* for the two tools of the route the results are as asked
C28_KnownToolsAnswered ==
    \E t \in TurnIds :
        /\ chat[t].pc = "saveAssistant"
        /\ Count(chat[t].log, "complete") = 2
        /\ Asked(FirstAnswer(t)) = <<TC_search, TC_all>>
        /\ ResultIds(SubSeq(chat[t].log[Len(chat[t].log) - 1].arg,
                            Len(chat[t].messages) + 3, Len(chat[t].messages) + 4))
              = <<"call_2", "call_3">>

\* ---- C29
GetCall == evaluated.fn = "get_extracted_data" /\ IsSome(evaluated.output)
FieldGiven == TextArg(evaluated.input.args, K_field)
\* a key resolves when the current value is an object or an array that has
\* it: a key of the object, an index or the length of the array
Resolves(current, key) ==
    \/ current.t = "obj" /\ key \in DOMAIN current.v
    \/ current.t = "arr" /\ (IsIndexOf(current.v, key) \/ key = K_length)
Resolved(current, key) ==
    IF current.t = "obj" THEN current.v[key]
    ELSE IF key = K_length THEN JNum(Len(current.v))
    ELSE current.v[key[1] - 48 + 1]
RECURSIVE Reached(_, _)
Reached(current, keys) ==
    IF keys = <<>> THEN current
    ELSE IF Resolves(current, Head(keys))
    THEN Reached(Resolved(current, Head(keys)), Tail(keys))
    ELSE JNull

\* C29: get_extracted_data returns the whole extracted object when no field
\* path is given, the value reached by following the keys of the dotted path
\* when every key resolves, and null as soon as a key does not resolve
C29_GetExtractedDataByPath ==
    GetCall =>
        Get(evaluated.output).json =
            IF FieldGiven = <<>> THEN evaluated.input.document.extracted
            ELSE Reached(evaluated.input.document.extracted, Split(FieldGiven, Dot))

\* the path "constructor" on an extracted object without keys gives a
\* function, and the path "person.name" gives the name on the full object
C29_InheritedKeyResolves ==
    /\ GetCall
    /\ FieldGiven = K_constructor
    /\ evaluated.input.document.extracted = EmptyObj
    /\ Get(evaluated.output).json = JFunction
C29_PathFollowed ==
    /\ GetCall
    /\ FieldGiven = K_person \o <<Dot>> \o K_name
    /\ Get(evaluated.output).json = JStr(<<74, 111, 104, 110, 32, 68, 111, 101>>)

\* ---- C30
SearchCall == evaluated.fn = "search_document_text" /\ IsSome(evaluated.output)
QueryGiven == TextArg(evaluated.input.args, K_query)
\* the lines of the document that hold the query, case ignored, in the order
\* of the document
LinesFound ==
    SelectSeq(Split(evaluated.input.document.text, LineFeed),
              LAMBDA line : Includes(ToLowerCase(line), ToLowerCase(QueryGiven)))
FirstFound == Join(SubSeq(LinesFound, 1, IF Len(LinesFound) > SearchLimit
                                         THEN SearchLimit ELSE Len(LinesFound)), LineFeed)

\* C30 as stated: the first at most 5 lines that hold the query, and the
\* marker exactly when no line holds it
C30_MarkerIffNoLineMatches ==
    SearchCall =>
        Get(evaluated.output).text = IF LinesFound = <<>> THEN NoMatch ELSE FirstFound

\* C30: the first at most 5 lines that hold the query, joined by line feeds,
\* and the marker exactly when that text is empty: no line holds the query,
\* or the one line that holds it is empty
C30_MarkerIffNothingToShow ==
    SearchCall =>
        /\ Get(evaluated.output).text = IF FirstFound = <<>> THEN NoMatch ELSE FirstFound
        /\ FirstFound = <<>> <=> \/ LinesFound = <<>>
                                 \/ LinesFound = <<(<<>>)>>

\* six lines hold the query in another case than the query's: five are returned
C30_Witness ==
    /\ SearchCall
    /\ QueryGiven = <<115, 115, 110>>
    /\ Len(LinesFound) = SearchLimit + 1
    /\ Len(Split(Get(evaluated.output).text, LineFeed)) = SearchLimit
\* the empty query on a document without text: its one line matches, the
\* marker is returned
C30_WitnessEmptyLine ==
    /\ SearchCall
    /\ LinesFound = <<(<<>>)>>
    /\ Get(evaluated.output).text = NoMatch

\* ---- C31
\* the text of a completion message, empty when the message has none
TextOf(message) == IF IsSome(message.content) THEN Get(message.content) ELSE ""
\* the final answer of a turn: the second when the first asked for tools
FinalAnswer(t) ==
    IF Asked(FirstAnswer(t)) # <<>> THEN Answers(t)[2].arg ELSE FirstAnswer(t)

\* C31: the assistant message of a turn that succeeds holds the text of the
\* final answer (the second answer when tools fired, else the first), the
\* message returned to the caller is that answer, the row's toolCalls are the
\* calls of the first answer and nothing else, and no row of the store holds a
\* tool result
C31_AssistantContentIsFinalText ==
    /\ \A t \in TurnIds :
          ChatSucceeded(t) =>
             /\ AssistantRow(t).content = TextOf(FinalAnswer(t))
             /\ ChatResponse(t).message = Some(FinalAnswer(t))
             /\ AssistantRow(t).toolCalls =
                   IF Asked(FirstAnswer(t)) # <<>> THEN Some(Asked(FirstAnswer(t))) ELSE None
    /\ \A k \in DOMAIN chatMessages :
          /\ chatMessages[k].role \in {"user", "assistant"}
          /\ DOMAIN chatMessages[k] =
                {"id", "documentId", "role", "content", "toolCalls", "createdAt"}

\* tools fired, and the two answers have different texts
C31_Witness ==
    \E t \in TurnIds :
       /\ ChatSucceeded(t)
       /\ Asked(FirstAnswer(t)) = <<TC_search, TC_all>>
       /\ TextOf(FirstAnswer(t)) = "Let me look."
       /\ AssistantRow(t).content = "The name is John Doe."

\* ---- C32
SystemMessageMade == evaluated.fn = "systemMessage" /\ IsSome(evaluated.output)
\* the text that the template puts after "The document text: "
Rendered(content) == content.excerpt \o (IF content.marker THEN <<Dot, Dot, Dot>> ELSE <<>>)

\* C32: the system message holds the first 2000 characters of the context
\* text, followed by "..." exactly when the context text is longer than 2000
\* characters; a context text of 2000 characters or fewer is there whole,
\* without the marker
C32_ExcerptAndMarker ==
    SystemMessageMade =>
        LET text == evaluated.input.contextText
            content == Get(evaluated.output).content
        IN  /\ Len(text) <= 2000 => Rendered(content) = text
            /\ Len(text) > 2000 => Rendered(content) = SubSeq(text, 1, 2000) \o <<46, 46, 46>>

\* context texts of 2001 and of 2000 characters
C32_Witness ==
    /\ SystemMessageMade
    /\ Len(evaluated.input.contextText) = 2001
    /\ Len(Rendered(Get(evaluated.output).content)) = 2003
C32_WitnessAtLimit ==
    /\ SystemMessageMade
    /\ Len(evaluated.input.contextText) = 2000
    /\ Len(Rendered(Get(evaluated.output).content)) = 2000

\* ---- C33
\* neither text/* nor PDF, by declared type or by file name
OtherMedia(file) ==
    /\ ~TypeIsText(file.type)
    /\ file.type # "application/pdf"
    /\ ~NameIsPdf(file.name)
ExtractStepOfOtherMedia(i) ==
    /\ ingest[i].pc = "extract"
    /\ OtherMedia(Get(ingest[i].file))
    /\ ingest'[i] # ingest[i]
DocumentsWrittenBy(i) ==
    SelectSeq(documents, LAMBDA d : <<"Document", d.id>> \in Range(ingest[i].wrote))

\* C33: for a file that is neither text nor PDF the extraction step does not
\* fail and leaves the empty text, which goes to schema discovery; a request
\* that succeeds on such a file has written one Document row, whose text is
\* empty, and no Embedding row
C33_OtherMediaGivesEmptyText ==
    /\ [][\A i \in IngestIds :
            ExtractStepOfOtherMedia(i) =>
               /\ ingest'[i].pc = "discover"
               /\ ingest'[i].redacted = <<>>]_vars
    /\ [](\A i \in IngestIds :
            /\ ingest[i].pc = "persist" /\ OtherMedia(Get(ingest[i].file))
                  => Last(ingest[i].log) = Call("discover", <<>>)
            /\ Done(i) /\ Response(i).status = 200
               /\ (\E d \in Range(DocumentsWrittenBy(i)) : OtherMedia(FileNamed(d.filename)))
                  => /\ Len(ingest[i].wrote) = 1
                     /\ Len(DocumentsWrittenBy(i)) = 1
                     /\ DocumentsWrittenBy(i)[1].text = <<>>
                     /\ EmbeddingsOf(DocumentsWrittenBy(i)[1].id) = <<>>
                     /\ Count(ingest[i].log, "discover") = 1
                     /\ Count(ingest[i].log, "embed") = 0)

\* an image has been ingested with success
C33_Witness ==
    \E i \in IngestIds :
       /\ Done(i)
       /\ Response(i).status = 200
       /\ Len(DocumentsWrittenBy(i)) = 1
       /\ DocumentsWrittenBy(i)[1].filename = "f.png"

\* ---- C34
StoredWithRole(documentId, role) ==
    Len(SelectSeq(chatMessages, LAMBDA m : m.documentId = documentId /\ m.role = role))

\* C34: in every state of the store each document has at most as many
\* assistant messages as user messages, and every ChatMessage row has the
\* role user or assistant
C34_AssistantsAtMostUsers ==
    /\ \A d \in Range(documents) :
          StoredWithRole(d.id, "assistant") <= StoredWithRole(d.id, "user")
    /\ \A m \in Range(chatMessages) :
          /\ m.role \in {"user", "assistant"}
          /\ DocumentsWithId(m.documentId) # <<>>

\* two turns on one document have written their user messages before either
\* reply; one has failed and the other has stored its reply after tool calls
C34_Witness ==
    \E t, u \in TurnIds :
       /\ t # u
       /\ ChatSucceeded(t)
       /\ Asked(FirstAnswer(t)) # <<>>
       /\ ChatDone(u) /\ ChatResponse(u).status = 500
       /\ Len(chat[u].wrote) = 1
       /\ Roles(chatMessages) = <<"user", "user", "assistant">>
       /\ \A m \in Range(chatMessages) : m.documentId = chatMessages[1].documentId

\* ---- C35
\* C35: in every state of the store each Document has at most one Embedding
\* row, so the retrieval of a chat turn for a stored document, whatever the
\* query vector, returns no record or one, below its limit of 3
C35_AtMostOneEmbedding ==
    \A d \in Range(documents) :
        /\ Len(EmbeddingsOf(d.id)) <= 1
        /\ \A v \in Vectors : \A relevantDocs \in RelevantDocs(d.id, v) :
              /\ Len(relevantDocs) = Len(EmbeddingsOf(d.id))
              /\ Len(relevantDocs) < RetrieveLimit

\* every ingestion has stored its document and its embedding; a document
\* stored without embedding
C35_Witness ==
    /\ Len(documents) = MaxIngests
    /\ \A d \in Range(documents) : Len(EmbeddingsOf(d.id)) = 1
    /\ \A i \in IngestIds : Done(i)
C35_WitnessNone ==
    \E d \in Range(documents) :
       /\ EmbeddingsOf(d.id) = <<>>
       /\ \E i \in IngestIds : Done(i) /\ Response(i) = IngestOk(d.id)

\* ---- C36
Retrieved(t) == chat[t].pc = "complete" /\ Last(chat[t].log).ev = "retrieve"

\* C36: in every turn whose retrieval has succeeded, every record returned
\* carries the text of the requested document, and the system message is
\* made from that text, whether records were returned or not and whatever the
\* query vector and the distances
C36_ContextIsDocumentText ==
    \A t \in TurnIds :
        Retrieved(t) =>
            /\ \A k \in DOMAIN Last(chat[t].log).arg :
                  /\ Last(chat[t].log).arg[k].id = Get(chat[t].documentId)
                  /\ Last(chat[t].log).arg[k].text = StoredDocument(t).text
            /\ chat[t].systemMessage =
                  Some(SystemMessage(StoredDocument(t).text, StoredDocument(t)))

\* one turn with a record at a distance above 0, another without record
C36_Witness ==
    \E t, u \in TurnIds :
       /\ Retrieved(t) /\ Retrieved(u)
       /\ Len(Last(chat[t].log).arg) = 1 /\ Last(chat[t].log).arg[1].distance > 0
       /\ Last(chat[u].log).arg = <<>>
\* a record at distance 0
C36_WitnessNearest ==
    \E t \in TurnIds :
       /\ Retrieved(t)
       /\ Len(Last(chat[t].log).arg) = 1 /\ Last(chat[t].log).arg[1].distance = 0

\* ---- C37
Supplied(t) == Get(chat[t].request).messages.items
CompletionCalls(t) ==
    {k \in DOMAIN chat[t].log : chat[t].log[k].ev = "complete" /\ chat[t].log[k].arg # <<>>}

\* C37: a turn writes one user message, whose content is that of the last
\* message of the supplied history, and at most one more row, its reply;
\* every completion call of the turn carries the supplied history as given,
\* right after the system message
C37_OnlyLastMessagePersisted ==
    \A t \in TurnIds :
        /\ Len(chat[t].wrote) <= 2
        /\ Len(WroteRole(t, "user")) <= 1
        /\ WroteRole(t, "user") # <<>> =>
              /\ UserRow(t).role = "user"
              /\ UserRow(t).content = Last(Supplied(t)).content
        /\ \A k \in CompletionCalls(t) :
              SubSeq(chat[t].log[k].arg, 2, Len(Supplied(t)) + 1) = Supplied(t)

\* a turn has succeeded on a history of three messages while the store holds
\* two messages, its own: the first two of the history are not in the store
C37_Witness ==
    \E t \in TurnIds :
       /\ ChatSucceeded(t)
       /\ Len(Supplied(t)) = 3
       /\ Len(chatMessages) = 2
       /\ UserRow(t).content = Supplied(t)[3].content
       /\ \A m \in Range(chatMessages) :
             m.content # Supplied(t)[1].content /\ m.content # Supplied(t)[2].content
\* the first completion call has just been made with the three messages
C37_WitnessCall ==
    \E t \in TurnIds :
       /\ CompletionCalls(t) # {}
       /\ Len(Supplied(t)) = 3
       /\ Len(chatMessages) = 1

\* ---- C38
AfterUserWrite == {"embed", "retrieve", "complete", "tools", "saveAssistant"}
WrittenUserId(t) == WroteRole(t, "user")[1][2]
\* u repeats the last user message of t, which failed after its user write;
\* turns are numbered in the order of their arrival
RetryOf(t, u) ==
    /\ t < u
    /\ FailedAt(t, AfterUserWrite)
    /\ ChatSucceeded(u)
    /\ Request(t).documentId = Request(u).documentId
    /\ Last(History(t)).content = Last(History(u)).content

\* C38: when a turn has failed after its user write and a later turn on the
\* same document with the same last user message has succeeded, the messages
\* of the document are, in the order written, the user message of the failed
\* turn, the user message of the later turn with the same content, and the
\* assistant message of the later turn
C38_RetryWritesUserMessageAgain ==
    \A t, u \in TurnIds :
       RetryOf(t, u) =>
          LET rows == MessagesOf(Get(Request(u).documentId))
          IN  /\ Len(rows) = 3
              /\ Roles(rows) = <<"user", "user", "assistant">>
              /\ Ids(rows) = <<WrittenUserId(t), WrittenUserId(u),
                               WroteRole(u, "assistant")[1][2]>>
              /\ rows[1].content = Last(History(t)).content
              /\ rows[2].content = rows[1].content
              /\ rows[1].createdAt <= rows[2].createdAt
              /\ rows[2].createdAt <= rows[3].createdAt

\* the retry carries the very request that failed
C38_Witness ==
    \E t, u \in TurnIds :
       /\ RetryOf(t, u)
       /\ Request(t) = Request(u)
       /\ FailedAt(t, {"complete"})
       /\ Len(chatMessages) = 3

====
